---- MODULE Spec2Model ----
(***************************************************************************)
(* Invoice / delivery-tracking backend (src/server.js): the audit-history  *)
(* codec, the text-artifact manager, the generic row update, the error     *)
(* report flow, the movement batch and the artifact edit/delete endpoints. *)
(*                                                                         *)
(* Text is a sequence of tokens.  A token is one character, or a chunk the *)
(* code never looks inside (a date, ".txt", "_ERRORI", "REPLACED_", ...).  *)
(* A spreadsheet cell that may hold JSON is a Cell: [txt, js], where       *)
(* js = <<v>> means "the cell text is JSON.stringify(v)" and js = <<>>     *)
(* means "the cell text is txt and is not valid JSON".                     *)
(***************************************************************************)
EXTENDS Integers, Sequences, FiniteSets, TLC

\* ---------------------------------------------------------------- bounds
MaxOps == 2
MaxTime == 1
MaxOld == 1
MaxGen == 3

\* ------------------------------------------------------- text primitives
WS == {" ", "\n"}
ControlChars == {"\n"}
UnsafeChars == {"/", "\\", ":", "*", "?", "\"", "<", ">", "|"}

RECURSIVE TrimLeft(_)
TrimLeft(s) ==
  IF s = <<>> THEN <<>>
  ELSE IF Head(s) \in WS THEN TrimLeft(Tail(s)) ELSE s

Rev(s) == [i \in 1..Len(s) |-> s[Len(s) + 1 - i]]

\* String.prototype.trim
Trim(s) == Rev(TrimLeft(Rev(TrimLeft(s))))

MapChars(s, cls, rep) == [i \in 1..Len(s) |-> IF s[i] \in cls THEN rep ELSE s[i]]

RECURSIVE DropWhile(_, _)
DropWhile(s, cls) ==
  IF s = <<>> THEN <<>>
  ELSE IF Head(s) \in cls THEN DropWhile(Tail(s), cls) ELSE s

\* s.replace(/[cls]+/g, rep)
RECURSIVE CollapseRuns(_, _, _)
CollapseRuns(s, cls, rep) ==
  IF s = <<>> THEN <<>>
  ELSE IF Head(s) \in cls
       THEN <<rep>> \o CollapseRuns(DropWhile(Tail(s), cls), cls, rep)
       ELSE <<Head(s)>> \o CollapseRuns(Tail(s), cls, rep)

sanitizeText(s) == Trim(CollapseRuns(MapChars(s, ControlChars, " "), WS, " "))
sanitizeDateSafe(s) == Trim(s)
sanitizeEmailSafe(s) == Trim(s)

StartsWith(s, p) == Len(p) <= Len(s) /\ SubSeq(s, 1, Len(p)) = p
EndsWith(s, p) == Len(p) <= Len(s) /\ SubSeq(s, Len(s) - Len(p) + 1, Len(s)) = p
Includes(s, tok) == \E i \in 1..Len(s) : s[i] = tok

\* ------------------------------------------------------------ cells, JSON
T(s) == [txt |-> s, js |-> <<>>]
JSONstringify(v) == [txt |-> <<>>, js |-> <<v>>]
EmptyStr == T(<<>>)

\* the value of an argument or property that is missing (one token of its
\* own, not the word spelled out)
Undefined == [txt |-> <<"undefined">>, js |-> <<>>]

\* JavaScript truthiness of a string value (or of a missing one)
Truthy(c) == c # EmptyStr /\ c # Undefined
\* c.trim() === ''
IsBlank(c) == c.js = <<>> /\ Trim(c.txt) = <<>>
\* x || ''
OrEmpty(c) == IF Truthy(c) THEN c ELSE EmptyStr

\* ------------------------------------------------------- audit history
\* a variant that returns whatever the stored JSON denotes, list or not
parseStoricoModifiche_anyJSON(storicoString) ==
  IF ~Truthy(storicoString) \/ IsBlank(storicoString) THEN <<>>
  ELSE IF storicoString.js = <<>> THEN <<>>
  ELSE storicoString.js[1].items

parseStoricoModifiche(storicoString) ==
  IF ~Truthy(storicoString) \/ IsBlank(storicoString) THEN <<>>
  ELSE IF storicoString.js = <<>> THEN <<>>            \* JSON.parse throws
  ELSE IF storicoString.js[1].arr THEN storicoString.js[1].items
  ELSE <<>>

\* a variant that starts from an empty history instead of the stored one
aggiungiModificaAlloStorico_restart(storicoAttuale, campoModificato, valorePrecedente, valoreNuovo, modificatoDa, t) ==
  JSONstringify([arr |-> TRUE,
                 items |-> << [timestamp         |-> t,
                               campo             |-> campoModificato,
                               valore_precedente |-> OrEmpty(valorePrecedente),
                               valore_nuovo      |-> OrEmpty(valoreNuovo),
                               modificato_da     |-> modificatoDa,
                               data_modifica     |-> t] >>])

\* a variant that records the two values the wrong way round
aggiungiModificaAlloStorico_swapped(storicoAttuale, campoModificato, valorePrecedente, valoreNuovo, modificatoDa, t) ==
  JSONstringify([arr |-> TRUE,
                 items |-> Append(parseStoricoModifiche(storicoAttuale),
                             [timestamp         |-> t,
                              campo             |-> campoModificato,
                              valore_precedente |-> OrEmpty(valoreNuovo),
                              valore_nuovo      |-> OrEmpty(valorePrecedente),
                              modificato_da     |-> modificatoDa,
                              data_modifica     |-> t])])

aggiungiModificaAlloStorico(storicoAttuale, campoModificato, valorePrecedente, valoreNuovo, modificatoDa, t) ==
  LET storico == parseStoricoModifiche(storicoAttuale)
      nuovaModifica == [timestamp         |-> t,
                        campo             |-> campoModificato,
                        valore_precedente |-> OrEmpty(valorePrecedente),
                        valore_nuovo      |-> OrEmpty(valoreNuovo),
                        modificato_da     |-> modificatoDa,
                        data_modifica     |-> t]
  IN JSONstringify([arr |-> TRUE, items |-> Append(storico, nuovaModifica)])

\* ------------------------------------------------------------ DDT parser
Digits == {"1", "3"}
NaN == <<"NaN">>

\* String.prototype.split(sep): the pieces between the occurrences of sep
RECURSIVE Split(_, _)
Split(s, sep) ==
  IF \A i \in 1..Len(s) : s[i] # sep THEN <<s>>
  ELSE LET i == CHOOSE j \in 1..Len(s) : s[j] = sep /\ \A k \in 1..(j - 1) : s[k] # sep
       IN <<SubSeq(s, 1, i - 1)>> \o Split(SubSeq(s, i + 1, Len(s)), sep)

RECURSIVE TakeWhile(_, _)
TakeWhile(s, cls) ==
  IF s = <<>> \/ Head(s) \notin cls THEN <<>>
  ELSE <<Head(s)>> \o TakeWhile(Tail(s), cls)

\* parseFloat: the leading digits after leading blanks, or NaN
parseFloat(s) ==
  LET t == TrimLeft(s)
  IN IF t # <<>> /\ Head(t) \in Digits THEN TakeWhile(t, Digits) ELSE NaN

\* String.prototype.indexOf, 1-based; 0 when tok does not occur
IndexOf(s, tok) ==
  IF Includes(s, tok)
  THEN CHOOSE j \in 1..Len(s) : s[j] = tok /\ \A k \in 1..(j - 1) : s[k] # tok
  ELSE 0

\* parseRigaDDT: <<>> for null, else the one parsed line
parseRigaDDT(riga0) ==
  LET riga == Trim(riga0)
      parts == [k \in 1..Len(Split(riga, "|")) |-> Trim(Split(riga, "|")[k])]
      pieces == Split(riga, " - ")
      codiceENome == pieces[1]
      qtaEUm == pieces[2]
      underscoreIndex == IndexOf(codiceENome, "_")
      qtaParts == Split(Trim(qtaEUm), " ")
      quantita == parseFloat(qtaParts[1])
      um == qtaParts[Len(qtaParts)]
  IN IF riga = <<>> THEN <<>>
     ELSE IF Includes(riga, "|") /\ Len(parts) = 4
       THEN << [codice |-> parts[1], nome |-> parts[2], um |-> parts[3],
                quantita |-> parseFloat(parts[4])] >>
     ELSE IF Includes(riga, "_") /\ Includes(riga, " - ")
             /\ underscoreIndex > 1 /\ quantita # NaN /\ um # <<>>
       THEN << [codice |-> Trim(SubSeq(codiceENome, 1, underscoreIndex - 1)),
                nome |-> Trim(SubSeq(codiceENome, underscoreIndex + 1, Len(codiceENome))),
                um |-> um, quantita |-> quantita] >>
     ELSE <<>>

\* righe.map((riga, index) => ...).filter(Boolean) from position index on
RECURSIVE mapRighe(_, _)
mapRighe(righe, index) ==
  IF index > Len(righe) THEN <<>>
  ELSE LET parsed == parseRigaDDT(righe[index])
       IN (IF parsed = <<>> THEN <<>>
           ELSE << [codice |-> parsed[1].codice, nome |-> parsed[1].nome,
                    um |-> parsed[1].um, quantita |-> parsed[1].quantita,
                    riga_originale |-> righe[index], riga_numero |-> index] >>)
          \o mapRighe(righe, index + 1)

\* a variant that gives up the whole document at an unrecognized line
parseDDTCompleto_abort(testoDDT) ==
  IF \E r \in 1..Len(Split(testoDDT, "\n")) :
       Trim(Split(testoDDT, "\n")[r]) # <<>> /\ parseRigaDDT(Split(testoDDT, "\n")[r]) = <<>>
  THEN <<>>
  ELSE mapRighe(SelectSeq(Split(testoDDT, "\n"), LAMBDA r : Trim(r) # <<>>), 1)

parseDDTCompleto(testoDDT) ==
  IF Trim(testoDDT) = <<>> THEN <<>>
  ELSE mapRighe(SelectSeq(Split(testoDDT, "\n"), LAMBDA r : Trim(r) # <<>>), 1)

\* ------------------------------------------------------ store directory
negozi == { [nome |-> <<"StoreX">>, codice |-> <<"P", "X">>],
            [nome |-> <<"StoreY">>, codice |-> <<"P", "Y">>] }

\* negozi.find(n => n.nome === puntoVendita)?.codice || 'UNKNOWN'
codicePVOf(puntoVendita) ==
  IF \E n \in negozi : n.nome = puntoVendita
  THEN (CHOOSE n \in negozi : n.nome = puntoVendita).codice
  ELSE <<"UNKNOWN">>

\* ------------------------------------------------- text artifact manager
cleanForFilename(str) ==
  Trim(CollapseRuns(CollapseRuns(MapChars(str, UnsafeChars, "_"), WS, "_"),
                    {"_"}, "_"))

\* JavaScript value of  (x && x.trim() !== '') : '' when x is '', else a boolean
JsNonBlank(c) == IF ~Truthy(c) THEN "" ELSE IF IsBlank(c) THEN "false" ELSE "true"
JsOr(a, b) == IF a = "true" THEN a ELSE b
JsTruthy(v) == v = "true"

\* a variant that looks at the two legacy channels only
hasErrorsOf_legacy(erroriConsegna, noteErrori, itemNoConv) ==
  JsOr(JsNonBlank(noteErrori), JsNonBlank(itemNoConv))

hasErrorsOf(erroriConsegna, noteErrori, itemNoConv) ==
  JsOr(JsOr(JsNonBlank(erroriConsegna), JsNonBlank(noteErrori)), JsNonBlank(itemNoConv))

fileNameOf(numeroDocumento, dataConsegna, nomeFornitore, codicePV, hasErrors) ==
  cleanForFilename(numeroDocumento) \o <<"_">> \o dataConsegna \o <<"_">>
    \o cleanForFilename(nomeFornitore) \o <<"_">> \o cleanForFilename(codicePV)
    \o (IF JsTruthy(hasErrors) THEN <<"_ERRORI">> ELSE <<>>) \o <<".txt">>

\* the filter of the directory scan
isExistingFileFor(file, numeroDocPulito) ==
  /\ StartsWith(file, numeroDocPulito \o <<"_">>)
  /\ EndsWith(file, <<".txt">>)
  /\ ~Includes(file, ".backup")

backupNameOf(prefix, file, t) == prefix \o file \o <<".backup", ".", ToString(t)>>

\* the order in which readdir lists a set of names
RECURSIVE readdirOrder(_)
readdirOrder(S) ==
  IF S = {} THEN <<>>
  ELSE LET x == CHOOSE y \in S : TRUE IN <<x>> \o readdirOrder(S \ {x})

NoFault == [op |-> "none", at |-> 0]

\* the for-loop over existingFiles: read, write the backup, unlink; an I/O
\* error at file number fault.at leaves the loop with the files as they are
RECURSIVE replaceOldFiles(_, _, _, _, _)
replaceOldFiles(dir, olds, k, t, fault) ==
  IF k > Len(olds) THEN [files |-> dir, threw |-> FALSE]
  ELSE LET oldFile == olds[k]
           backup  == backupNameOf(<<"REPLACED_">>, oldFile, t)
           withBackup == (backup :> dir[oldFile]) @@ dir
           unlinked == [f \in (DOMAIN withBackup) \ {oldFile} |-> withBackup[f]]
       IN IF fault.at = k /\ fault.op = "backup"
             THEN [files |-> dir, threw |-> TRUE]
          ELSE IF fault.at = k /\ fault.op = "unlink"
             THEN [files |-> withBackup, threw |-> TRUE]
          ELSE replaceOldFiles(unlinked, olds, k + 1, t, fault)

\* generateTxtFile: result is <<>> for null, <<r>> for a returned record;
\* threw = TRUE when the function rejects
generateTxtFile(dir, invoiceData, isModification, t, fault) ==
  LET contenutoTxt   == invoiceData.txt
      codicePV       == codicePVOf(invoiceData.punto_vendita)
      hasErrors      == hasErrorsOf(invoiceData.errori_consegna, invoiceData.note,
                                    invoiceData.item_noconv)
      numeroDocPulito == cleanForFilename(invoiceData.numero)
      fileName       == fileNameOf(invoiceData.numero, invoiceData.data_consegna.txt,
                                   invoiceData.fornitore, codicePV, hasErrors)
      existingFiles  == IF fault.op = "readdir" THEN <<>>
                        ELSE readdirOrder({f \in DOMAIN dir :
                                             isExistingFileFor(f, numeroDocPulito)})
      cleaned        == IF fault.op = "readdir" THEN [files |-> dir, threw |-> TRUE]
                        ELSE replaceOldFiles(dir, existingFiles, 1, t, fault)
  IN IF invoiceData.numero = <<>> \/ ~Truthy(invoiceData.data_consegna)
        \/ invoiceData.fornitore = <<>>
        THEN [files |-> dir, threw |-> TRUE, result |-> <<>>]
     ELSE IF Trim(contenutoTxt) = <<>>
        THEN [files |-> dir, threw |-> FALSE, result |-> <<>>]
     ELSE IF fault.op = "write"
        THEN [files |-> cleaned.files, threw |-> TRUE, result |-> <<>>]
     ELSE [files  |-> (fileName :> contenutoTxt) @@ cleaned.files,
           threw  |-> FALSE,
           result |-> << [fileName       |-> fileName,
                          size           |-> Len(contenutoTxt),
                          hasErrors      |-> hasErrors,
                          isModification |-> isModification,
                          replacedFiles  |-> Len(existingFiles)] >>]

\* ------------------------------------------------------------ validation
DomainTokens == {"@fradiavolopizzeria.com", "@azienda.it", "@gmail.com"}
AllowedDomains == {"@fradiavolopizzeria.com", "@azienda.it"}
\* validator.isEmail: local part followed by a domain
isEmail(e) == Len(e) = 2 /\ e[1] \notin DomainTokens /\ e[2] \in DomainTokens
validateEmail(email) ==
  isEmail(email) /\ \E d \in AllowedDomains : Includes(email, d)

\* the calendar: well-formed dates and their day number; Today is new Date()
DayOf == [d \in {"2024-01-15", "2024-02-20", "2999-01-01"} |->
            IF d = "2024-01-15" THEN 1 ELSE IF d = "2024-02-20" THEN 2 ELSE 9]
Today == 5
isDate(s) == Len(s) = 1 /\ s[1] \in DOMAIN DayOf
\* a variant without the comparison with today
validateDate_anyDay(dateString) == isDate(dateString)

validateDate(dateString) == isDate(dateString) /\ DayOf[dateString[1]] <= Today

\* ------------------------------------------------------ generic row update
HasKey(updates, key) == \E i \in 1..Len(updates) : updates[i].k = key
ValOf(updates, key) == updates[CHOOSE i \in 1..Len(updates) : updates[i].k = key].v

\* rows.find(r => r.get('id') === id): index of the first match, 0 if none
findRow(sheet, id) ==
  IF \E i \in 1..Len(sheet) : sheet[i].id = id
  THEN CHOOSE i \in 1..Len(sheet) :
         sheet[i].id = id /\ \A j \in 1..(i - 1) : sheet[j].id # id
  ELSE 0

\* Object.keys(updates).forEach(campo => ...) of the change tracking; acc is
\* [storico, isModification]
RECURSIVE trackChanges(_, _, _, _, _, _)
trackChanges(updates, k, valoriPrecedenti, acc, modificatoDa, t) ==
  IF k > Len(updates) THEN acc
  ELSE LET campo == updates[k].k
           valorePrecedente == valoriPrecedenti[campo]
           valoreNuovo == updates[k].v
       IN IF valorePrecedente # valoreNuovo
          THEN trackChanges(updates, k + 1, valoriPrecedenti,
                 [storico |-> aggiungiModificaAlloStorico(acc.storico, campo,
                                valorePrecedente, valoreNuovo, modificatoDa, t),
                  isModification |-> TRUE],
                 modificatoDa, t)
          ELSE trackChanges(updates, k + 1, valoriPrecedenti, acc, modificatoDa, t)

\* Object.keys(updates).forEach(key => row.set(key, updates[key]))
RECURSIVE applyUpdates(_, _, _)
applyUpdates(row, updates, k) ==
  IF k > Len(updates) THEN row
  ELSE applyUpdates([row EXCEPT ![updates[k].k] = updates[k].v], updates, k + 1)

\* a variant in which the artifact is written before the row is saved
saveRejected_afterWrite(sheet, dir, written) == [rows |-> sheet, files |-> written, err |-> "save", generated |-> FALSE]

\* row.save() rejects: updateSheetRow rethrows before it reaches generateTxtFile
\* (written is the directory the artifact write would have left)
saveRejected(sheet, dir, written) == [rows |-> sheet, files |-> dir, err |-> "save", generated |-> FALSE]

\* a variant that lets the error of generateTxtFile escape
caughtTxtError_rethrown(gen) == IF gen.threw THEN "txt" ELSE ""

\* catch (txtError) around generateTxtFile: the error is logged, the update
\* goes on without one
caughtTxtError(gen) == ""

\* updateSheetRow: err is "" on success, "notfound" or "save" when it throws;
\* generated tells whether generateTxtFile was called
updateSheetRow(sheet, dir, id, updates, modificatoDa, t, fault) ==
  LET i == findRow(sheet, id)
      row == sheet[i]
      valoriPrecedenti == [f \in {"data_consegna", "confermato_da", "note", "stato",
                                  "errori_consegna"} |-> OrEmpty(row[f])]
      storicoAttuale == OrEmpty(row.storico_modifiche)
      statoCorrente == row.stato
      tracked ==
        IF statoCorrente = T(<<"consegnato">>)
        THEN trackChanges(updates, 1, valoriPrecedenti,
                          [storico |-> storicoAttuale, isModification |-> FALSE],
                          modificatoDa, t)
        ELSE [storico |-> storicoAttuale, isModification |-> FALSE]
      nuovoStorico == tracked.storico
      isModification == tracked.isModification
      invoiceDataForTxt ==
        [id |-> row.id, numero |-> row.numero, fornitore |-> row.fornitore,
         punto_vendita |-> row.punto_vendita, txt |-> row.txt,
         data_consegna |-> IF HasKey(updates, "data_consegna")
                              /\ Truthy(ValOf(updates, "data_consegna"))
                           THEN ValOf(updates, "data_consegna") ELSE row.data_consegna,
         note |-> IF HasKey(updates, "note") THEN ValOf(updates, "note") ELSE row.note,
         item_noconv |-> OrEmpty(row.item_noconv),
         errori_consegna |-> IF HasKey(updates, "errori_consegna")
                                /\ Truthy(ValOf(updates, "errori_consegna"))
                             THEN ValOf(updates, "errori_consegna")
                             ELSE OrEmpty(row.errori_consegna)]
      updated == applyUpdates(row, updates, 1)
      saved == IF isModification
               THEN [updated EXCEPT !.storico_modifiche = nuovoStorico] ELSE updated
      wantsTxt == \/ (HasKey(updates, "stato")
                      /\ ValOf(updates, "stato") = T(<<"consegnato">>))
                  \/ (statoCorrente = T(<<"consegnato">>) /\ isModification)
      gen == generateTxtFile(dir, invoiceDataForTxt, isModification, t, fault)
  IN IF i = 0 THEN [rows |-> sheet, files |-> dir, err |-> "notfound", generated |-> FALSE]
     ELSE IF fault.op = "save"
        THEN saveRejected(sheet, dir, IF wantsTxt THEN gen.files ELSE dir)
     ELSE [rows  |-> [sheet EXCEPT ![i] = saved],
           files |-> IF wantsTxt THEN gen.files ELSE dir,
           err   |-> IF wantsTxt THEN caughtTxtError(gen) ELSE "",
           generated |-> wantsTxt]

\* ------------------------------------------------------------------ users
opx   == [email |-> <<"opx", "@fradiavolopizzeria.com">>, role |-> "operator",
          puntoVendita |-> <<"StoreX">>]
admin == [email |-> <<"admin", "@fradiavolopizzeria.com">>, role |-> "admin",
          puntoVendita |-> <<"ADMIN_GLOBAL">>]
users == {opx, admin}

Consegnato == T(<<"consegnato">>)
Pending == T(<<"pending">>)

\* ------------------------------------------------------ request handlers
\* Each handler is an operator from the persisted state and the request to
\* the persisted state after the request and the HTTP status of the reply.

\* a variant in which any requester may confirm on behalf of someone else
confirm_onBehalfByAnyone(sheet, dir, user, id, body, t, fault) ==
  LET confermatoDa ==
        IF validateEmail(body.confermato_da_email)
        THEN sanitizeEmailSafe(body.confermato_da_email) ELSE user.email
      noteFromBody ==
        IF Trim(body.note_errori) # <<>> THEN body.note_errori
        ELSE IF Trim(body.note) # <<>> THEN body.note ELSE <<>>
      updates ==
        << [k |-> "stato", v |-> Consegnato],
           [k |-> "data_consegna", v |-> T(sanitizeDateSafe(body.data_consegna))],
           [k |-> "confermato_da", v |-> T(confermatoDa)] >>
        \o (IF noteFromBody # <<>>
            THEN << [k |-> "note", v |-> T(sanitizeText(noteFromBody))] >> ELSE <<>>)
      u == updateSheetRow(sheet, dir, id, updates, confermatoDa, t, fault)
  IN IF id = <<>> \/ body.data_consegna = <<>>
        THEN [rows |-> sheet, files |-> dir, status |-> 400]
     ELSE IF ~validateDate(body.data_consegna)
        THEN [rows |-> sheet, files |-> dir, status |-> 400]
     ELSE [rows |-> u.rows, files |-> u.files,
           status |-> IF u.err = "" THEN 200 ELSE 500]

\* POST /api/invoices/:id/confirm
confirm(sheet, dir, user, id, body, t, fault) ==
  LET confermatoDa ==
        IF user.role = "admin" /\ validateEmail(body.confermato_da_email)
        THEN sanitizeEmailSafe(body.confermato_da_email) ELSE user.email
      noteFromBody ==
        IF Trim(body.note_errori) # <<>> THEN body.note_errori
        ELSE IF Trim(body.note) # <<>> THEN body.note ELSE <<>>
      updates ==
        << [k |-> "stato", v |-> Consegnato],
           [k |-> "data_consegna", v |-> T(sanitizeDateSafe(body.data_consegna))],
           [k |-> "confermato_da", v |-> T(confermatoDa)] >>
        \o (IF noteFromBody # <<>>
            THEN << [k |-> "note", v |-> T(sanitizeText(noteFromBody))] >> ELSE <<>>)
      u == updateSheetRow(sheet, dir, id, updates, confermatoDa, t, fault)
  IN IF id = <<>> \/ body.data_consegna = <<>>
        THEN [rows |-> sheet, files |-> dir, status |-> 400]
     ELSE IF ~validateDate(body.data_consegna)
        THEN [rows |-> sheet, files |-> dir, status |-> 400]
     ELSE [rows |-> u.rows, files |-> u.files,
           status |-> IF u.err = "" THEN 200 ELSE 500]

\* PUT /api/invoices/:id ; body.note is <<>> when absent, <<text>> when a string
putInvoice(sheet, dir, user, id, body, t, fault) ==
  LET updates ==
        (IF body.data_consegna # <<>>
         THEN << [k |-> "data_consegna", v |-> T(sanitizeDateSafe(body.data_consegna))] >>
         ELSE <<>>)
        \o (IF body.confermato_da # <<>>
            THEN << [k |-> "confermato_da", v |-> T(sanitizeEmailSafe(body.confermato_da))] >>
            ELSE <<>>)
        \o (IF body.note # <<>>
            THEN << [k |-> "note", v |-> T(sanitizeText(body.note[1]))] >> ELSE <<>>)
        \o (IF Trim(body.errori_consegna) # <<>>
            THEN << [k |-> "errori_consegna", v |-> T(body.errori_consegna)] >>
            ELSE <<>>)
      u == updateSheetRow(sheet, dir, id, updates, user.email, t, fault)
  IN IF id = <<>> THEN [rows |-> sheet, files |-> dir, status |-> 400]
     ELSE IF body.data_consegna # <<>> /\ ~validateDate(body.data_consegna)
        THEN [rows |-> sheet, files |-> dir, status |-> 400]
     ELSE IF body.confermato_da # <<>> /\ ~validateEmail(body.confermato_da)
        THEN [rows |-> sheet, files |-> dir, status |-> 400]
     ELSE IF updates = <<>>
        THEN [rows |-> sheet, files |-> dir, status |-> 400]
     ELSE [rows |-> u.rows, files |-> u.files,
           status |-> IF u.err = "" THEN 200 ELSE 500]

\* a variant in which an exception of the webhook call escapes
notify_fatal(nsent, fault) ==
  IF fault.op = "webhook" THEN [sent |-> nsent, dispatch |-> "threw", raised |-> TRUE]
  ELSE IF fault.op = "webhookNotOk"
       THEN [sent |-> nsent, dispatch |-> "notOk", raised |-> FALSE]
  ELSE [sent |-> nsent + 1, dispatch |-> "ok", raised |-> FALSE]

\* try { fetch(webhook) } catch { log }: the call is accepted, answered with a
\* non-OK status, or throws; nothing is raised to the handler
notify(nsent, fault) ==
  IF fault.op = "webhook" THEN [sent |-> nsent, dispatch |-> "threw", raised |-> FALSE]
  ELSE IF fault.op = "webhookNotOk"
       THEN [sent |-> nsent, dispatch |-> "notOk", raised |-> FALSE]
  ELSE [sent |-> nsent + 1, dispatch |-> "ok", raised |-> FALSE]

\* a variant that keeps every submitted line, flagged or not
erroriDataOf_allLines(body, utente, t) ==
  [timestamp        |-> t,
   data_consegna    |-> sanitizeDateSafe(body.data_consegna),
   utente           |-> utente,
   modifiche        |-> body.modifiche_righe,
   note_testuali    |-> sanitizeText(body.note_testuali),
   righe_modificate |-> Len(body.modifiche_righe),
   totale_righe     |-> Len(body.modifiche_righe)]

\* erroriData: the report built from the submission
erroriDataOf(body, utente, t) ==
  [timestamp        |-> t,
   data_consegna    |-> sanitizeDateSafe(body.data_consegna),
   utente           |-> utente,
   modifiche        |-> SelectSeq(body.modifiche_righe, LAMBDA m : m.modificato),
   note_testuali    |-> sanitizeText(body.note_testuali),
   righe_modificate |-> Len(SelectSeq(body.modifiche_righe, LAMBDA m : m.modificato)),
   totale_righe     |-> Len(body.modifiche_righe)]

\* POST /api/invoices/:id/report-error
reportError(sheet, dir, nsent, user, id, body, t, fault) ==
  LET hasModifiche == \E k \in 1..Len(body.modifiche_righe) :
                         body.modifiche_righe[k].modificato
      hasNote == Trim(body.note_testuali) # <<>>
      i == findRow(sheet, id)
      row == sheet[i]
      erroriData == erroriDataOf(body, user.email, t)
      erroriConsegnaJson == JSONstringify(erroriData)
      saved == [row EXCEPT !.errori_consegna = erroriConsegnaJson,
                           !.stato = Consegnato,
                           !.data_consegna = T(sanitizeDateSafe(body.data_consegna)),
                           !.confermato_da = T(user.email)]
      invoiceDataForTxt ==
        [id |-> row.id, numero |-> row.numero, fornitore |-> row.fornitore,
         punto_vendita |-> row.punto_vendita, txt |-> row.txt,
         data_consegna |-> T(sanitizeDateSafe(body.data_consegna)),
         note |-> T(sanitizeText(body.note_testuali)),
         item_noconv |-> OrEmpty(row.item_noconv),
         errori_consegna |-> erroriConsegnaJson]
      gen == generateTxtFile(dir, invoiceDataForTxt, FALSE, t, fault)
      n == notify(nsent, fault)
      refused(code) == [rows |-> sheet, files |-> dir, sent |-> nsent,
                        dispatch |-> "none", status |-> code]
  IN IF body.data_consegna = <<>> \/ ~validateDate(body.data_consegna)
        THEN refused(400)
     ELSE IF ~hasModifiche /\ ~hasNote
        THEN refused(400)
     ELSE IF i = 0
        THEN refused(404)
     ELSE IF fault.op = "save"
        THEN refused(500)
     ELSE IF n.raised
        THEN [rows |-> [sheet EXCEPT ![i] = saved], files |-> dir, sent |-> n.sent,
              dispatch |-> n.dispatch, status |-> 500]
     ELSE [rows     |-> [sheet EXCEPT ![i] = saved],
           files    |-> gen.files,
           sent     |-> n.sent,
           dispatch |-> n.dispatch,
           status   |-> 200]

\* String(ddt).trim().replace(/[^\w/.\-\/]/g, '')
sanitizeDDT(ddt) == SelectSeq(Trim(ddt), LAMBDA c : c \notin (WS \cup (UnsafeChars \ {"/"})))

RECURSIVE joinLines(_)
joinLines(parts) ==
  IF parts = <<>> THEN <<>>
  ELSE IF Len(parts) = 1 THEN parts[1]
  ELSE parts[1] \o <<"\n">> \o joinLines(Tail(parts))

\* fatturaData: the invoice row made from a DDT
fatturaDataOf(ddtData, t) ==
  [id |-> <<"ddt_", ToString(t), "_">> \o MapChars(ddtData.ddt_number, {"/"}, "_"),
   numero |-> ddtData.ddt_number,
   fornitore |-> sanitizeText(ddtData.origine),
   punto_vendita |-> sanitizeText(ddtData.destinazione),
   txt |-> joinLines(SelectSeq([k \in 1..Len(ddtData.prodotti) |->
                                  ddtData.prodotti[k].txt_content],
                               LAMBDA x : x # <<>>)),
   item_noconv |-> EmptyStr,
   stato |-> Pending,
   data_consegna |-> EmptyStr,
   confermato_da |-> EmptyStr,
   note |-> EmptyStr,
   errori_consegna |-> EmptyStr,
   storico_modifiche |-> EmptyStr]

\* a variant that overwrites the invoice of the DDT when there is one
generateInvoiceFromMovimentazione_upsert(sheet, ddtData, t) ==
  IF \E i \in 1..Len(sheet) : sheet[i].numero = ddtData.ddt_number
  THEN [i \in 1..Len(sheet) |->
          IF sheet[i].numero = ddtData.ddt_number
          THEN [fatturaDataOf(ddtData, t) EXCEPT !.id = sheet[i].id]
          ELSE sheet[i]]
  ELSE Append(sheet, fatturaDataOf(ddtData, t))

\* a variant that adds the invoice without looking for an existing one
generateInvoiceFromMovimentazione_always(sheet, ddtData, t) ==
  Append(sheet, fatturaDataOf(ddtData, t))

\* generateInvoiceFromMovimentazione: a sheet with the invoice of the DDT
generateInvoiceFromMovimentazione(sheet, ddtData, t) ==
  IF \E i \in 1..Len(sheet) : sheet[i].numero = ddtData.ddt_number
  THEN sheet
  ELSE Append(sheet, fatturaDataOf(ddtData, t))

\* righe: the movement rows of one batch
righeOf(movimenti, origine, ddtNumber) ==
  [k \in 1..Len(movimenti) |->
     [id |-> MapChars(ddtNumber, {"/"}, "_") \o <<"_", ToString(k - 1)>>,
      origine |-> IF movimenti[k].origine # <<>> THEN movimenti[k].origine
                  ELSE origine,
      prodotto |-> movimenti[k].prodotto,
      quantita |-> movimenti[k].quantita,
      destinazione |-> movimenti[k].destinazione,
      txt_content |-> movimenti[k].txt_content,
      creato_da |-> movimenti[k].creato_da,
      ddt_number |-> ddtNumber]]

\* ddtData: what the batch hands to generateInvoiceFromMovimentazione
ddtDataOf(movimenti, origine, ddtNumber) ==
  [ddt_number |-> ddtNumber,
   origine |-> IF movimenti[1].origine # <<>> THEN movimenti[1].origine
               ELSE origine,
   destinazione |-> movimenti[1].destinazione,
   prodotti |-> righeOf(movimenti, origine, ddtNumber)]

\* saveMovimentazioniToSheet: the movement rows and the invoice sheet after it
saveMovimentazioniToSheet(sheet, msheet, movimenti, origine, ddtNumber, t) ==
  LET righe == righeOf(movimenti, origine, ddtNumber)
      ddtData == ddtDataOf(movimenti, origine, ddtNumber)
  IN [movs |-> msheet \o righe,
      rows |-> generateInvoiceFromMovimentazione(sheet, ddtData, t),
      alreadyExists |-> \E i \in 1..Len(sheet) : sheet[i].numero = ddtData.ddt_number]

\* POST /api/movimentazioni
postMovimentazioni(sheet, msheet, user, body, t, fault) ==
  LET byUser == IF user.role = "admin" /\ validateEmail(body.creato_da_email)
                   /\ \E u \in users : u.email = body.creato_da_email
                THEN {u \in users : u.email = body.creato_da_email} ELSE {}
      customOrigin == IF byUser # {} THEN (CHOOSE u \in byUser : TRUE).puntoVendita
                      ELSE body.origine
      customCreatoDa == IF byUser # {} THEN (CHOOSE u \in byUser : TRUE).email
                        ELSE user.email
      ddtNumberClean == sanitizeDDT(body.ddt_number)
      invalid(m) == \/ Trim(m.prodotto) = <<>>
                    \/ m.quantita <= 0
                    \/ Trim(m.destinazione) = <<>>
      movimenti == [k \in 1..Len(body.movimenti) |->
                     [prodotto |-> sanitizeText(body.movimenti[k].prodotto),
                      quantita |-> body.movimenti[k].quantita,
                      destinazione |-> sanitizeText(body.movimenti[k].destinazione),
                      txt_content |-> body.movimenti[k].txt_content,
                      creato_da |-> customCreatoDa,
                      origine |-> customOrigin]]
      saved == saveMovimentazioniToSheet(sheet, msheet, movimenti,
                                         sanitizeText(customOrigin), ddtNumberClean, t)
  IN IF body.movimenti = <<>> \/ Trim(body.origine) = <<>> \/ Trim(body.ddt_number) = <<>>
        THEN [rows |-> sheet, movs |-> msheet, status |-> 400, alreadyExists |-> FALSE]
     ELSE IF user.puntoVendita # body.origine /\ user.role # "admin"
        THEN [rows |-> sheet, movs |-> msheet, status |-> 403, alreadyExists |-> FALSE]
     ELSE IF \E k \in 1..Len(body.movimenti) : invalid(body.movimenti[k])
        THEN [rows |-> sheet, movs |-> msheet, status |-> 400, alreadyExists |-> FALSE]
     ELSE IF fault.op = "save"
        THEN [rows |-> sheet, movs |-> msheet, status |-> 500, alreadyExists |-> FALSE]
     ELSE [rows |-> saved.rows, movs |-> saved.movs, status |-> 200,
           alreadyExists |-> saved.alreadyExists]

\* ------------------------------------------------ artifact edit / delete
validTxtName(filename) ==
  EndsWith(filename, <<".txt">>) /\ ~Includes(filename, "..") /\ ~Includes(filename, "/")

\* PUT /api/txt-files/:filename/content
putTxtContent(dir, filename, content, t, fault) ==
  LET backup == backupNameOf(<<>>, filename, t)
      withBackup == (backup :> dir[filename]) @@ dir
  IN IF ~validTxtName(filename) THEN [files |-> dir, status |-> 400]
     ELSE IF filename \notin DOMAIN dir THEN [files |-> dir, status |-> 404]
     ELSE IF fault.op = "backup" THEN [files |-> dir, status |-> 500]
     ELSE IF fault.op = "write" THEN [files |-> withBackup, status |-> 500]
     ELSE [files |-> (filename :> content) @@ withBackup, status |-> 200]

\* DELETE /api/txt-files/:filename
deleteTxt(dir, filename, t, fault) ==
  LET backup == backupNameOf(<<"DELETED_">>, filename, t)
      withBackup == (backup :> dir[filename]) @@ dir
  IN IF ~validTxtName(filename) THEN [files |-> dir, status |-> 400]
     ELSE IF filename \notin DOMAIN dir THEN [files |-> dir, status |-> 404]
     ELSE IF fault.op = "backup" THEN [files |-> dir, status |-> 500]
     ELSE IF fault.op = "unlink" THEN [files |-> withBackup, status |-> 500]
     ELSE [files |-> [f \in (DOMAIN withBackup) \ {filename} |-> withBackup[f]],
           status |-> 200]

\* ------------------------------------------------ artifact content read
\* loadAllSheetData: the rows, one per id (the first of each)
loadAllSheetData(sheet) ==
  SelectSeq(sheet, LAMBDA inv : sheet[findRow(sheet, inv.id)] = inv)

\* loadSheetData: the rows of one store, or every row when puntoVendita is
\* null or ''
loadSheetData(sheet, puntoVendita) ==
  IF puntoVendita = <<>> THEN sheet
  ELSE SelectSeq(sheet, LAMBDA r : r.punto_vendita = puntoVendita)

\* GET /api/invoices: what the user is shown
getInvoices(sheet, user) ==
  IF user.role = "admin" THEN loadAllSheetData(sheet)
  ELSE loadSheetData(sheet, user.puntoVendita)

\* s.replace(pat, ''): the first occurrence of pat removed
RECURSIVE removeFirst(_, _)
removeFirst(s, pat) ==
  IF s = <<>> THEN <<>>
  ELSE IF StartsWith(s, pat) THEN SubSeq(s, Len(pat) + 1, Len(s))
  ELSE <<Head(s)>> \o removeFirst(Tail(s), pat)

\* allInvoices.find(...): the first of the invoices that satisfy the test
\* (hits, in sheet order), if any
findInvoice(hits) == IF hits = <<>> THEN <<>> ELSE <<hits[1]>>

\* fs.rename(oldPath, newPath)
renameFile(dir, old, new) ==
  (new :> dir[old]) @@ [f \in (DOMAIN dir) \ {old} |-> dir[f]]

\* GET /api/txt-files/:filename/content
getTxtContent(sheet, dir, filename, fault) ==
  LET hasErrorSuffix  == Includes(filename, "_ERRORI")
      cleanFilename   == removeFirst(removeFirst(filename, <<"_ERRORI", ".txt">>), <<".txt">>)
      numeroDocumento == Split(cleanFilename, "_")[1]
      related == IF numeroDocumento = <<>> \/ fault.op = "sheet" THEN <<>>
                 ELSE findInvoice(SelectSeq(loadAllSheetData(sheet),
                                    LAMBDA inv : Trim(inv.numero) = Trim(numeroDocumento)))
      errorKeys == IF related = <<>> THEN {}
                   ELSE {k \in {"errori_consegna", "note", "item_noconv"} :
                           /\ ~IsBlank(related[1][k])
                           /\ k = "errori_consegna" => related[1][k].js # <<>>}
      reply(code, flag) == [files |-> dir, status |-> code, filename |-> filename,
                            renamedTo |-> <<>>, hasErrors |-> flag]
  IN IF ~validTxtName(filename) THEN reply(400, FALSE)
     ELSE IF filename \notin DOMAIN dir THEN reply(404, FALSE)
     ELSE IF fault.op = "read" THEN reply(500, FALSE)
     ELSE reply(200, hasErrorSuffix \/ errorKeys # {})

\* GET /api/txt-files/:filename/content of the earlier server
getTxtContentOld(sheet, dir, filename, fault) ==
  LET numeroDoc == Split(filename, "_")[1]
      related   == findInvoice(SelectSeq(loadAllSheetData(sheet), LAMBDA inv : inv.numero = numeroDoc))
      shouldHaveErrorSuffix ==
        /\ related # <<>>
        /\ ~IsBlank(related[1].note) \/ ~IsBlank(related[1].item_noconv)
      currentlyHasSuffix == \E i \in 1..(Len(filename) - 1) :
                              filename[i] = "_ERRORI" /\ filename[i + 1] = ".txt"
      newFilename == SubSeq(filename, 1, Len(filename) - 1) \o <<"_ERRORI", ".txt">>
      renamed == /\ shouldHaveErrorSuffix /\ ~currentlyHasSuffix
                 /\ filename \in DOMAIN dir
                 /\ fault.op # "rename"
      served  == IF renamed THEN newFilename ELSE filename
      dir2    == IF renamed THEN renameFile(dir, filename, newFilename) ELSE dir
      reply(d, code, flag) == [files |-> d, status |-> code, filename |-> served,
                               renamedTo |-> IF renamed THEN newFilename ELSE <<>>,
                               hasErrors |-> flag]
  IN IF ~validTxtName(filename) THEN reply(dir, 400, FALSE)
     ELSE IF fault.op = "sheet" THEN reply(dir, 500, FALSE)
     ELSE IF served \notin DOMAIN dir2 THEN reply(dir2, 404, FALSE)
     ELSE IF fault.op = "read" THEN reply(dir2, 500, FALSE)
     ELSE reply(dir2, 200, Includes(served, "_ERRORI") \/ shouldHaveErrorSuffix)

\* ------------------------------------------------------------------ state
VARIABLES
  rows,      \* the invoice sheet: a sequence of rows
  movs,      \* the "Movimentazioni" sheet
  files,     \* the artifact directory: file name -> content
  now,       \* Date.now()
  sent,      \* notifications delivered to the webhook
  req,       \* the last request: operation, caller, invoice id, well-formedness, body
  resp,      \* the reply to the last request
  ops,       \* requests handled so far
  lastGen,   \* the last direct call of generateTxtFile and its outcome
  reqs,      \* update requests in flight: position, loaded rows, outcome
  lastCall   \* the last direct call of a pure function: name, input, output

vars == <<rows, movs, files, now, sent, req, resp, ops, lastGen, reqs, lastCall>>

\* ----------------------------------------------------------- input values
D1 == <<"2024-01-15">>
D2 == <<"2024-02-20">>
DFuture == <<"2999-01-01">>
DBad == <<"notadate">>
Box == <<" ", "B", "x">>
Blank == <<" ">>
Acme == <<"A", "c", " ", "m", "e">>
N12 == <<"1", "2">>
N34 == <<"3", "4">>
TxtBody == <<"T">>
GmailUser == <<"x", "@gmail.com">>

NoFile == [f \in {} |-> <<>>]
NoReqs == <<>>
NoCall == [fn |-> "none", input |-> <<>>, output |-> <<>>, threw |-> FALSE]
NoGen == [calls |-> 0, input |-> <<>>, threw |-> FALSE, result |-> <<>>]
NoReq == [op |-> "none", user |-> <<>>, id |-> <<>>, wellFormed |-> TRUE, body |-> <<>>]
Idle == [status |-> 0, dispatch |-> "none", alreadyExists |-> FALSE]

Row1 == [id |-> <<"i1">>, numero |-> N12, fornitore |-> Acme,
         punto_vendita |-> <<"StoreX">>, txt |-> TxtBody, item_noconv |-> EmptyStr,
         stato |-> Pending, data_consegna |-> EmptyStr, confermato_da |-> EmptyStr,
         note |-> EmptyStr, errori_consegna |-> EmptyStr,
         storico_modifiche |-> EmptyStr]

\* an invoice confirmed earlier, with its artifact on disk
Row2(storico) ==
        [id |-> <<"i2">>, numero |-> N34, fornitore |-> Acme,
         punto_vendita |-> <<"StoreY">>, txt |-> TxtBody, item_noconv |-> EmptyStr,
         stato |-> Consegnato, data_consegna |-> T(D1), confermato_da |-> T(opx.email),
         note |-> EmptyStr, errori_consegna |-> EmptyStr,
         storico_modifiche |-> storico]
Row2File == fileNameOf(N34, D1, Acme, codicePVOf(<<"StoreY">>), "")

\* stored histories the sheet can start with: none, and a corrupted cell
InitialStorico == {EmptyStr, T(<<"{", "x">>)}

IDs == {<<"i1">>, <<"i2">>, <<"zz">>}

\* I/O errors of the environment: the row save, the directory scan, the
\* backup (read or write) and the unlink of old file number `at`, the write
\* of the new file, the webhook call
Fault(o, k) == [op |-> o, at |-> k]
FileFaults == {Fault(o, k) : o \in {"backup", "unlink"}, k \in 1..MaxOld}
UpdateFaults == {NoFault, Fault("save", 0), Fault("readdir", 0), Fault("write", 0)}
                \cup FileFaults
ReportFaults == UpdateFaults \cup {Fault("webhook", 0), Fault("webhookNotOk", 0)}
\* an I/O error can only strike a request that got as far as doing I/O
Attempted(status, fault) == status \in {400, 403, 404} => fault = NoFault

ConfirmBody(d, n1, n2, e) ==
  [data_consegna |-> d, note_errori |-> n1, note |-> n2, confermato_da_email |-> e]
ConfirmBodies ==
  {ConfirmBody(d, <<>>, <<>>, <<>>) : d \in {<<>>, DBad, DFuture, D1}}
  \cup {ConfirmBody(D2, Blank, Box, <<>>), ConfirmBody(D1, <<>>, <<>>, opx.email)}
  \cup {ConfirmBody(D1, <<>>, <<>>, admin.email), ConfirmBody(D2, <<>>, <<>>, GmailUser)}

PutBody(d, c, n, e) ==
  [data_consegna |-> d, confermato_da |-> c, note |-> n, errori_consegna |-> e]
PutBodies ==
  {PutBody(d, <<>>, <<>>, <<>>) : d \in {<<>>, DBad, DFuture, D1, D2}}
  \cup {PutBody(<<>>, c, <<>>, <<>>) : c \in {GmailUser, admin.email}}
  \cup {PutBody(<<>>, <<>>, <<n>>, <<>>) : n \in {<<>>, Box}}
  \cup {PutBody(<<>>, <<>>, <<>>, <<"x">>), PutBody(D2, <<>>, <<Box>>, Blank)}

Riga(n, m) == [riga_numero |-> n, modificato |-> m]
ReportBody(d, righe, n) == [data_consegna |-> d, modifiche_righe |-> righe,
                            note_testuali |-> n]
ReportBodies ==
  {ReportBody(d, <<Riga(1, TRUE)>>, <<>>) : d \in {<<>>, DBad, D1}}
  \cup {ReportBody(D1, <<>>, <<>>), ReportBody(D1, <<Riga(1, FALSE)>>, Blank),
        ReportBody(D2, <<Riga(1, TRUE), Riga(2, FALSE)>>, Box)}

Mov(p, q, d) == [prodotto |-> p, quantita |-> q, destinazione |-> d,
                 txt_content |-> TxtBody]
MovBody(ms, o, n) == [movimenti |-> ms, origine |-> o, creato_da_email |-> <<>>,
                      ddt_number |-> n]
DDT1 == <<"T", "/", "1", " ">>
GoodMov == Mov(<<"P">>, 2, <<"StoreY">>)
MovBodies ==
  {MovBody(<<>>, <<"StoreX">>, DDT1),
   MovBody(<<GoodMov>>, <<"StoreX">>, Blank),
   MovBody(<<GoodMov>>, <<"StoreY">>, DDT1),
   MovBody(<<GoodMov>>, <<"StoreX">>, DDT1),
   MovBody(<<GoodMov>>, <<"StoreX">>, N34),
   MovBody(<<GoodMov, Mov(<<"Q">>, 0, <<"StoreY">>)>>, <<"StoreX">>, DDT1),
   MovBody(<<GoodMov, Mov(Blank, 1, <<"StoreY">>)>>, <<"StoreX">>, DDT1),
   MovBody(<<Mov(<<"P">>, 2, Blank)>>, <<"StoreX">>, DDT1)}

FileNames == (DOMAIN files) \cup {<<"n", "o", ".txt">>, <<"n", "o">>}
Contents == {<<"E">>}

\* what the interface asks of a request, stated on the inputs: a delivery date
\* that is a calendar date not in the future, an e-mail address of the company,
\* at least one field to update, a report with a modified line or a note, a
\* batch whose every movement has a product, a positive quantity and a destination
GoodDates == {D1, D2}
GoodEmails == {opx.email, admin.email}
wellFormedConfirm(body) == body.data_consegna \in GoodDates
wellFormedUpdate(body) ==
  /\ body.data_consegna # <<>> => body.data_consegna \in GoodDates
  /\ body.confermato_da # <<>> => body.confermato_da \in GoodEmails
  /\ \/ body.data_consegna # <<>>
     \/ body.confermato_da # <<>>
     \/ body.note # <<>>
     \/ body.errori_consegna \notin {<<>>, Blank}
wellFormedReport(body) ==
  /\ body.data_consegna \in GoodDates
  /\ \/ \E k \in 1..Len(body.modifiche_righe) : body.modifiche_righe[k].modificato
     \/ body.note_testuali \notin {<<>>, Blank}
wellFormedBatch(body) ==
  /\ body.movimenti # <<>>
  /\ body.origine \notin {<<>>, Blank}
  /\ body.ddt_number \notin {<<>>, Blank}
  /\ \A k \in 1..Len(body.movimenti) :
       /\ body.movimenti[k].prodotto \notin {<<>>, Blank}
       /\ body.movimenti[k].quantita > 0
       /\ body.movimenti[k].destinazione \notin {<<>>, Blank}

\* ---------------------------------------------------------------- actions
Init ==
  /\ \E h \in InitialStorico : rows = <<Row1, Row2(h)>>
  /\ movs = <<>>
  /\ files = (Row2File :> TxtBody)
  /\ now = 0
  /\ sent = 0
  /\ req = NoReq
  /\ resp = Idle
  /\ ops = 0
  /\ lastGen = NoGen
  /\ reqs = NoReqs
  /\ lastCall = NoCall

\* the clock advances
Tick ==
  /\ now < MaxTime
  /\ now' = now + 1
  /\ UNCHANGED <<rows, movs, files, sent, req, resp, ops, lastGen, reqs, lastCall>>

Confirm ==
  /\ ops < MaxOps
  /\ \E user \in users, id \in IDs, body \in ConfirmBodies, fault \in UpdateFaults :
       LET o == confirm(rows, files, user, id, body, now, fault)
       IN /\ Attempted(o.status, fault)
          /\ rows' = o.rows
          /\ files' = o.files
          /\ req' = [op |-> "confirm", user |-> user.email, id |-> id, wellFormed |-> wellFormedConfirm(body), body |-> <<body>>]
          /\ resp' = [status |-> o.status, dispatch |-> "none", alreadyExists |-> FALSE]
  /\ ops' = ops + 1
  /\ UNCHANGED <<movs, sent, now, lastGen, reqs, lastCall>>

PutInvoice ==
  /\ ops < MaxOps
  /\ \E user \in users, id \in IDs, body \in PutBodies, fault \in UpdateFaults :
       LET o == putInvoice(rows, files, user, id, body, now, fault)
       IN /\ Attempted(o.status, fault)
          /\ rows' = o.rows
          /\ files' = o.files
          /\ req' = [op |-> "update", user |-> user.email, id |-> id, wellFormed |-> wellFormedUpdate(body), body |-> <<>>]
          /\ resp' = [status |-> o.status, dispatch |-> "none", alreadyExists |-> FALSE]
  /\ ops' = ops + 1
  /\ UNCHANGED <<movs, sent, now, lastGen, reqs, lastCall>>

ReportError ==
  /\ ops < MaxOps
  /\ \E user \in users, id \in IDs, body \in ReportBodies, fault \in ReportFaults :
       LET o == reportError(rows, files, sent, user, id, body, now, fault)
       IN /\ Attempted(o.status, fault)
          /\ rows' = o.rows
          /\ files' = o.files
          /\ sent' = o.sent
          /\ req' = [op |-> "reportError", user |-> user.email, id |-> id, wellFormed |-> wellFormedReport(body), body |-> <<body>>]
          /\ resp' = [status |-> o.status, dispatch |-> o.dispatch, alreadyExists |-> FALSE]
  /\ ops' = ops + 1
  /\ UNCHANGED <<movs, now, lastGen, reqs, lastCall>>

PostMovimentazioni ==
  /\ ops < MaxOps
  /\ \E user \in users, body \in MovBodies, fault \in {NoFault, Fault("save", 0)} :
       LET o == postMovimentazioni(rows, movs, user, body, now, fault)
       IN /\ Attempted(o.status, fault)
          /\ rows' = o.rows
          /\ movs' = o.movs
          /\ req' = [op |-> "movimentazioni", user |-> user.email, id |-> <<>>, wellFormed |-> wellFormedBatch(body), body |-> <<body>>]
          /\ resp' = [status |-> o.status, dispatch |-> "none", alreadyExists |-> o.alreadyExists]
  /\ ops' = ops + 1
  /\ UNCHANGED <<files, sent, now, lastGen, reqs, lastCall>>

PutTxtContent ==
  /\ ops < MaxOps
  /\ \E filename \in FileNames, content \in Contents,
        fault \in {NoFault, Fault("backup", 1), Fault("write", 0)} :
       LET o == putTxtContent(files, filename, content, now, fault)
       IN /\ Attempted(o.status, fault)
          /\ files' = o.files
          /\ req' = [op |-> "putTxt", user |-> <<>>, id |-> <<>>, wellFormed |-> TRUE, body |-> <<>>]
          /\ resp' = [status |-> o.status, dispatch |-> "none", alreadyExists |-> FALSE]
  /\ ops' = ops + 1
  /\ UNCHANGED <<rows, movs, sent, now, lastGen, reqs, lastCall>>

DeleteTxt ==
  /\ ops < MaxOps
  /\ \E filename \in FileNames,
        fault \in {NoFault, Fault("backup", 1), Fault("unlink", 1)} :
       LET o == deleteTxt(files, filename, now, fault)
       IN /\ Attempted(o.status, fault)
          /\ files' = o.files
          /\ req' = [op |-> "deleteTxt", user |-> <<>>, id |-> <<>>, wellFormed |-> TRUE, body |-> <<>>]
          /\ resp' = [status |-> o.status, dispatch |-> "none", alreadyExists |-> FALSE]
  /\ ops' = ops + 1
  /\ UNCHANGED <<rows, movs, sent, now, lastGen, reqs, lastCall>>

Next ==
  \/ Tick
  \/ Confirm
  \/ PutInvoice
  \/ ReportError
  \/ PostMovimentazioni
  \/ PutTxtContent
  \/ DeleteTxt

Spec == Init /\ [][Next]_vars

\* ------------------------------------- generateTxtFile called on its own
\* Snapshots of one invoice (numero 12): each required field present or
\* missing, the body present, blank or empty, each error channel empty,
\* blank or filled.
Channel == {EmptyStr, T(Blank), T(<<"x">>)}
AllGenInputs ==
  {[id |-> <<"i1">>, numero |-> n, fornitore |-> f, punto_vendita |-> <<"StoreX">>,
    txt |-> b, data_consegna |-> d, note |-> c2, item_noconv |-> c3,
    errori_consegna |-> c1] :
     n \in {N12, <<>>}, f \in {Acme, <<>>}, b \in {TxtBody, Blank, <<>>},
     d \in {T(D1), EmptyStr}, c1 \in Channel, c2 \in Channel, c3 \in Channel}
GenInputs ==
  {inv \in AllGenInputs :
     (inv.numero = <<>> \/ inv.fornitore = <<>> \/ inv.data_consegna = EmptyStr
        \/ inv.txt # TxtBody)
     => (inv.errori_consegna = EmptyStr /\ inv.item_noconv = EmptyStr)}

InitGen ==
  /\ rows = <<>>
  /\ movs = <<>>
  /\ files = NoFile
  /\ now = 0
  /\ sent = 0
  /\ req = NoReq
  /\ resp = Idle
  /\ ops = 0
  /\ lastGen = NoGen
  /\ reqs = NoReqs
  /\ lastCall = NoCall

\* one call of generateTxtFile that meets no I/O error; calls counts the
\* calls that wrote an artifact
GenerateCall ==
  /\ lastGen.calls < MaxGen
  /\ \E invoiceData \in GenInputs :
       LET g == generateTxtFile(files, invoiceData, FALSE, now, NoFault)
       IN /\ files' = g.files
          /\ lastGen' = [calls  |-> IF g.result # <<>> THEN lastGen.calls + 1
                                    ELSE lastGen.calls,
                         input  |-> <<invoiceData>>,
                         threw  |-> g.threw,
                         result |-> g.result]
  /\ UNCHANGED <<rows, movs, now, sent, req, resp, ops, reqs, lastCall>>

NextGen ==
  \/ Tick
  \/ GenerateCall

SpecGen == InitGen /\ [][NextGen]_vars

\* ------------------------------------ two update requests in flight at once
\* updateSheetRow is not atomic: getRows loads the rows, the change tracking
\* and row.set work on the loaded row, row.save writes that row back, and the
\* artifact is generated last. Two requests r1 and r2 take these steps in any order.
RaceUpdates ==
  { << [k |-> "data_consegna", v |-> T(D2)] >>,
    << [k |-> "data_consegna", v |-> T(D1)] >>,
    << [k |-> "note", v |-> T(<<"x">>)] >>,
    << [k |-> "confermato_da", v |-> T(admin.email)] >> }
RaceReq(id, updates, user) ==
  [pc |-> "start", id |-> id, updates |-> updates, user |-> user, snap |-> <<>>,
   saveNo |-> 0, status |-> 0]
Requests == {1, 2}
SavesDone == Cardinality({r \in Requests : reqs[r].saveNo > 0})

\* a variant of the row store that writes only the cells the request changed
rowSave_cells(stored, loaded, mine) ==
  [f \in DOMAIN mine |-> IF mine[f] # loaded[f] THEN mine[f] ELSE stored[f]]

\* row.save(): the row as the request holds it replaces the stored row
rowSave(stored, loaded, mine) == mine

InitRace ==
  /\ rows = <<Row1, Row2(EmptyStr)>>
  /\ movs = <<>>
  /\ files = (Row2File :> TxtBody)
  /\ now = 0
  /\ sent = 0
  /\ req = NoReq
  /\ resp = Idle
  /\ ops = 0
  /\ lastGen = NoGen
  /\ lastCall = NoCall
  /\ \E id1 \in {<<"i1">>, <<"i2">>}, id2 \in {<<"i2">>},
        u1 \in RaceUpdates, u2 \in RaceUpdates :
       reqs = << RaceReq(id1, u1, opx.email), RaceReq(id2, u2, admin.email) >>

\* sheet.getRows()
RaceLoad(r) ==
  /\ reqs[r].pc = "start"
  /\ reqs' = [reqs EXCEPT ![r].pc = "loaded", ![r].snap = rows]
  /\ UNCHANGED <<rows, movs, files, now, sent, req, resp, ops, lastGen, lastCall>>

\* the change tracking on the loaded row, row.set, row.save()
RaceSave(r) ==
  /\ reqs[r].pc = "loaded"
  /\ LET q == reqs[r]
         i == findRow(q.snap, q.id)
         u == updateSheetRow(q.snap, files, q.id, q.updates, q.user, now, NoFault)
     IN /\ rows' = [rows EXCEPT ![i] = rowSave(rows[i], q.snap[i], u.rows[i])]
        /\ reqs' = [reqs EXCEPT ![r].pc = "saved", ![r].saveNo = SavesDone + 1]
  /\ UNCHANGED <<movs, files, now, sent, req, resp, ops, lastGen, lastCall>>

\* generateTxtFile from the request's own values, then the reply
RaceGenerate(r) ==
  /\ reqs[r].pc = "saved"
  /\ LET q == reqs[r]
         u == updateSheetRow(q.snap, files, q.id, q.updates, q.user, now, NoFault)
     IN files' = u.files
  /\ reqs' = [reqs EXCEPT ![r].pc = "done", ![r].status = 200]
  /\ UNCHANGED <<rows, movs, now, sent, req, resp, ops, lastGen, lastCall>>

NextRace ==
  \/ Tick
  \/ \E r \in Requests : RaceLoad(r)
  \/ \E r \in Requests : RaceSave(r)
  \/ \E r \in Requests : RaceGenerate(r)

SpecRace == InitRace /\ [][NextRace]_vars

\* ------------------------------------------ parseDDTCompleto called on its own
\* lines of a DDT: the two formats with and without blanks, a pipe line whose
\* quantity is not a number, lines with too few and too many pipes, format-2
\* lines with underscores in the name, with a quantity that is not a number,
\* with nothing before the underscore, with the underscore after the dash, a
\* line that has a pipe but is of format 2, free text, the empty line, blanks
DDTLines ==
  { <<"D", "|", "n", "|", "k", "|", "3">>,
    <<" ", "D", " ", "|", " ", "n", " ", "|", "k", "|", " ", "3", " ">>,
    <<"a", "|", "b", "|", "k", "|", "x">>,
    <<"a", "|", "b", "|", "3">>,
    <<"a", "|", "b", "|", "k", "|", "3", "|", "z">>,
    <<"1", "_", "n", " - ", "3", " ", "k">>,
    <<"1", "_", "n", "_", "m", " - ", "3", "3", " ", " ", "k">>,
    <<"1", "_", "n", " - ", "x", " ", "k">>,
    <<"_", "n", " - ", "3", " ", "k">>,
    <<"n", " - ", "3", " ", "k", "_", "g">>,
    <<"a", "|", "1", "_", "n", " - ", "3", " ", "k">>,
    <<"x", " ", "y">>,
    <<>>,
    <<" ">> }
MaxLines == 3
DDTDocs ==
  UNION { {joinLines(ls) : ls \in [1..n -> DDTLines]} : n \in 1..MaxLines }

InitParse ==
  /\ rows = <<>>
  /\ movs = <<>>
  /\ files = NoFile
  /\ now = 0
  /\ sent = 0
  /\ req = NoReq
  /\ resp = Idle
  /\ ops = 0
  /\ lastGen = NoGen
  /\ reqs = NoReqs
  /\ lastCall = NoCall

\* one call (the function keeps nothing between calls)
ParseCall ==
  /\ lastCall.fn = "none"
  /\ \E testoDDT \in DDTDocs :
       lastCall' = [fn |-> "parseDDTCompleto", input |-> testoDDT,
                    output |-> parseDDTCompleto(testoDDT), threw |-> FALSE]
  /\ UNCHANGED <<rows, movs, files, now, sent, req, resp, ops, lastGen, reqs>>

NextParse == ParseCall

SpecParse == InitParse /\ [][NextParse]_vars

\* ------------------------------------------ one read of an artifact's content
\* The sheet holds a pending invoice and a delivered one (numero 34) whose
\* error channels are empty, blank, free text or a stored JSON report; the
\* directory holds its artifact under the plain name, the _ERRORI name, both
\* or neither.
Row2FileErrori == fileNameOf(N34, D1, Acme, codicePVOf(<<"StoreY">>), "true")
ErrContent == <<"E">>
ReadRows ==
  {[Row2(EmptyStr) EXCEPT !.note = c2, !.item_noconv = c3, !.errori_consegna = c1] :
     c1 \in {EmptyStr, T(<<"x">>), JSONstringify([righe_modificate |-> 1])},
     c2 \in Channel, c3 \in {EmptyStr, T(<<"x">>)}}
ReadDirs ==
  {NoFile, Row2File :> TxtBody, Row2FileErrori :> ErrContent,
   (Row2File :> TxtBody) @@ (Row2FileErrori :> ErrContent)}
ReadNames == {Row2File, Row2FileErrori, <<"z", ".txt">>, <<"z">>}
ReadFaults == {NoFault, Fault("rename", 0), Fault("sheet", 0), Fault("read", 0)}

InitRead ==
  /\ rows \in {<<Row1, r>> : r \in ReadRows}
  /\ movs = <<>>
  /\ files \in ReadDirs
  /\ now = 0
  /\ sent = 0
  /\ req = NoReq
  /\ resp = Idle
  /\ ops = 0
  /\ lastGen = NoGen
  /\ reqs = NoReqs
  /\ lastCall = NoCall

\* one read by the current handler; input keeps the directory as it was
GetTxtContent ==
  /\ lastCall.fn = "none"
  /\ \E filename \in ReadNames, fault \in ReadFaults :
       LET g == getTxtContent(rows, files, filename, fault)
       IN /\ files' = g.files
          /\ lastCall' = [fn |-> "getTxtContent",
                          input |-> [filename |-> filename, fault |-> fault, dir |-> files],
                          output |-> g, threw |-> FALSE]
  /\ UNCHANGED <<rows, movs, now, sent, req, resp, ops, lastGen, reqs>>

\* one read by the handler of the earlier server
GetTxtContentOld ==
  /\ lastCall.fn = "none"
  /\ \E filename \in ReadNames, fault \in ReadFaults :
       LET g == getTxtContentOld(rows, files, filename, fault)
       IN /\ files' = g.files
          /\ lastCall' = [fn |-> "getTxtContentOld",
                          input |-> [filename |-> filename, fault |-> fault, dir |-> files],
                          output |-> g, threw |-> FALSE]
  /\ UNCHANGED <<rows, movs, now, sent, req, resp, ops, lastGen, reqs>>

NextRead ==
  \/ GetTxtContent
  \/ GetTxtContentOld

SpecRead == InitRead /\ [][NextRead]_vars

\* --------------------------------------- the history codec called on its own
\* ChangeRecords a stored history can hold
OldRecord(c) == [timestamp |-> 0, campo |-> c, valore_precedente |-> EmptyStr,
                 valore_nuovo |-> T(<<"x">>), modificato_da |-> opx.email,
                 data_modifica |-> 0]
\* what a stored JSON text denotes: a list of records, or something else
JsonList(items) == [arr |-> TRUE, items |-> items]
\* (a single record outside any list, and null)
JsonObject == [arr |-> FALSE, items |-> <<OldRecord("note")>>]
JsonNull == [arr |-> FALSE, items |-> <<>>]
\* stored history cells: missing, empty, blank, malformed, JSON that is not
\* a list, and lists of zero, one and two records
RawStorico ==
  {Undefined, EmptyStr, T(Blank), T(<<"{", "x">>), T(<<"[", "{">>),
   JSONstringify(JsonObject), JSONstringify(JsonNull),
   JSONstringify(JsonList(<<>>)),
   JSONstringify(JsonList(<<OldRecord("note")>>)),
   JSONstringify(JsonList(<<OldRecord("stato"), OldRecord("note")>>))}
CodecFields == {"note", "data_consegna"}
CodecValues == {Undefined, EmptyStr, T(<<"x">>), T(Blank)}
CodecUsers == {opx.email, admin.email}

InitCodec ==
  /\ rows = <<>>
  /\ movs = <<>>
  /\ files = NoFile
  /\ now = 0
  /\ sent = 0
  /\ req = NoReq
  /\ resp = Idle
  /\ ops = 0
  /\ lastGen = NoGen
  /\ reqs = NoReqs
  /\ lastCall = NoCall

\* one call of parseStoricoModifiche
ParseStoricoCall ==
  /\ lastCall.fn = "none"
  /\ \E raw \in RawStorico :
       lastCall' = [fn |-> "parseStoricoModifiche", input |-> [raw |-> raw],
                    output |-> parseStoricoModifiche(raw), threw |-> FALSE]
  /\ UNCHANGED <<rows, movs, files, now, sent, req, resp, ops, lastGen, reqs>>

\* one call of aggiungiModificaAlloStorico, and the history read back from
\* the string it returned
AggiungiModificaCall ==
  /\ lastCall.fn = "none"
  /\ \E raw \in RawStorico, campo \in CodecFields, prev \in CodecValues,
        new \in CodecValues, by \in CodecUsers :
       LET out == aggiungiModificaAlloStorico(raw, campo, prev, new, by, now)
       IN lastCall' = [fn |-> "aggiungiModificaAlloStorico",
                       input |-> [raw |-> raw, campo |-> campo, prev |-> prev,
                                  new |-> new, by |-> by],
                       output |-> [string |-> out, readBack |-> parseStoricoModifiche(out)],
                       threw |-> FALSE]
  /\ UNCHANGED <<rows, movs, files, now, sent, req, resp, ops, lastGen, reqs>>

NextCodec ==
  \/ Tick
  \/ ParseStoricoCall
  \/ AggiungiModificaCall

SpecCodec == InitCodec /\ [][NextCodec]_vars

\* ------------------------------------ one update, confirm or report, alone
\* The sheet and the directory before the call: the pending invoice (with a
\* body, with a blank one, or without supplier) and the delivered invoice, without errors and
\* plain artifact or with a note and _ERRORI artifact.
StepSheets ==
  {[rows |-> <<r1, Row2(h)>>, files |-> (Row2File :> TxtBody)] :
     r1 \in {Row1, [Row1 EXCEPT !.txt = Blank], [Row1 EXCEPT !.fornitore = <<>>]},
     h \in InitialStorico}
  \cup {[rows  |-> <<Row1, [Row2(EmptyStr) EXCEPT !.note = T(<<"x">>)]>>,
         files |-> (Row2FileErrori :> TxtBody)]}
\* the updates object of a call: what a confirm by opx on 2024-01-15 sends,
\* the same with another date, and updates of one field
ConfirmUpdates(d) ==
  << [k |-> "stato", v |-> Consegnato], [k |-> "data_consegna", v |-> T(d)],
     [k |-> "confermato_da", v |-> T(opx.email)] >>
StepUpdates ==
  RaceUpdates \cup {ConfirmUpdates(D1), ConfirmUpdates(D2),
                    << [k |-> "note", v |-> EmptyStr] >>}
StepConfirmBodies == {ConfirmBody(D1, <<>>, <<>>, <<>>), ConfirmBody(D2, Blank, Box, <<>>)}
StepReportBodies == {ReportBody(D1, <<Riga(1, TRUE)>>, <<>>),
                     ReportBody(D2, <<Riga(1, TRUE), Riga(2, FALSE)>>, Box)}
StepIDs == {<<"i1">>, <<"i2">>}

InitStep ==
  /\ \E s \in StepSheets : rows = s.rows /\ files = s.files
  /\ movs = <<>>
  /\ now = 0
  /\ sent = 0
  /\ req = NoReq
  /\ resp = Idle
  /\ ops = 0
  /\ lastGen = NoGen
  /\ reqs = NoReqs
  /\ lastCall = NoCall

\* what lastCall keeps of a call: its arguments, the I/O error it met, and
\* the sheet, directory and notification count it started from
StepInput(id, updates, body, user, fault) ==
  [id |-> id, updates |-> updates, body |-> body, user |-> user, fault |-> fault,
   rows |-> rows, files |-> files, sent |-> sent]

\* one call of updateSheetRow
UpdateCall ==
  /\ lastCall.fn = "none"
  /\ \E id \in StepIDs, updates \in StepUpdates, fault \in UpdateFaults :
       LET u == updateSheetRow(rows, files, id, updates, opx.email, now, fault)
       IN /\ rows' = u.rows
          /\ files' = u.files
          /\ lastCall' = [fn |-> "updateSheetRow",
                          input |-> StepInput(id, updates, <<>>, opx.email, fault),
                          output |-> [generated |-> u.generated, dispatch |-> "none",
                                      success |-> u.err = ""],
                          threw |-> u.err # ""]
  /\ UNCHANGED <<movs, now, sent, req, resp, ops, lastGen, reqs>>

\* one confirm request
ConfirmCall ==
  /\ lastCall.fn = "none"
  /\ \E id \in StepIDs, body \in StepConfirmBodies, fault \in UpdateFaults :
       LET o == confirm(rows, files, opx, id, body, now, fault)
       IN /\ rows' = o.rows
          /\ files' = o.files
          /\ lastCall' = [fn |-> "confirm",
                          input |-> StepInput(id, <<>>, <<body>>, opx.email, fault),
                          output |-> [generated |-> o.files # files, dispatch |-> "none",
                                      success |-> o.status = 200],
                          threw |-> FALSE]
  /\ UNCHANGED <<movs, now, sent, req, resp, ops, lastGen, reqs>>

\* one report-error request
ReportErrorCall ==
  /\ lastCall.fn = "none"
  /\ \E id \in StepIDs, body \in StepReportBodies, fault \in ReportFaults :
       LET o == reportError(rows, files, sent, opx, id, body, now, fault)
       IN /\ rows' = o.rows
          /\ files' = o.files
          /\ sent' = o.sent
          /\ lastCall' = [fn |-> "reportError",
                          input |-> StepInput(id, <<>>, <<body>>, opx.email, fault),
                          output |-> [generated |-> o.files # files, dispatch |-> o.dispatch,
                                      success |-> o.status = 200],
                          threw |-> FALSE]
  /\ UNCHANGED <<movs, now, req, resp, ops, lastGen, reqs>>

NextStep ==
  \/ UpdateCall
  \/ ConfirmCall
  \/ ReportErrorCall

SpecStep == InitStep /\ [][NextStep]_vars

\* ------------------------------- the life of one invoice, nothing failing
\* One invoice that starts pending without artifact; confirm, PUT and
\* report-error requests by its operator, served one after another, all
\* successful and without I/O error.
MaxLife == 3
LifeConfirmBodies == {ConfirmBody(D1, <<>>, <<>>, <<>>), ConfirmBody(D2, Blank, Box, <<>>)}
LifePutBodies ==
  {PutBody(D1, <<>>, <<>>, <<>>), PutBody(D2, <<>>, <<>>, <<>>),
   PutBody(<<>>, admin.email, <<>>, <<>>),
   PutBody(<<>>, <<>>, <<<<>>>>, <<>>), PutBody(<<>>, <<>>, <<Box>>, <<>>),
   PutBody(<<>>, <<>>, <<>>, <<"x">>)}
LifeReportBodies == StepReportBodies

InitLife ==
  /\ rows = <<Row1>>
  /\ movs = <<>>
  /\ files = NoFile
  /\ now = 0
  /\ sent = 0
  /\ req = NoReq
  /\ resp = Idle
  /\ ops = 0
  /\ lastGen = NoGen
  /\ reqs = NoReqs
  /\ lastCall = NoCall

LifeConfirm ==
  /\ ops < MaxLife
  /\ \E body \in LifeConfirmBodies :
       LET o == confirm(rows, files, opx, Row1.id, body, now, NoFault)
       IN /\ o.status = 200
          /\ rows' = o.rows
          /\ files' = o.files
  /\ ops' = ops + 1
  /\ UNCHANGED <<movs, now, sent, req, resp, lastGen, reqs, lastCall>>

LifeUpdate ==
  /\ ops < MaxLife
  /\ \E body \in LifePutBodies :
       LET o == putInvoice(rows, files, opx, Row1.id, body, now, NoFault)
       IN /\ o.status = 200
          /\ rows' = o.rows
          /\ files' = o.files
  /\ ops' = ops + 1
  /\ UNCHANGED <<movs, now, sent, req, resp, lastGen, reqs, lastCall>>

LifeReportError ==
  /\ ops < MaxLife
  /\ \E body \in LifeReportBodies :
       LET o == reportError(rows, files, sent, opx, Row1.id, body, now, NoFault)
       IN /\ o.status = 200
          /\ rows' = o.rows
          /\ files' = o.files
          /\ sent' = o.sent
  /\ ops' = ops + 1
  /\ UNCHANGED <<movs, now, req, resp, lastGen, reqs, lastCall>>

NextLife ==
  \/ Tick
  \/ LifeConfirm
  \/ LifeUpdate
  \/ LifeReportError

SpecLife == InitLife /\ [][NextLife]_vars

\* --------------------- generateTxtFile next to another invoice's artifacts
\* Invoice 12 is generated while the directory holds the artifact of another
\* invoice: number 34, 120, or 12/24 (whose artifact name starts with 12_).
N120 == <<"1", "2", "0">>
N12of24 == <<"1", "2", "/", "2", "4">>
OtherNumbers == {N34, N120, N12of24}
OtherContent == <<"O">>
OtherArtifact(numero, d, he) == fileNameOf(numero, d, Acme, codicePVOf(<<"StoreY">>), he)
PairDirs ==
  {(OtherArtifact(b, d, he) :> OtherContent) @@ own :
     b \in OtherNumbers, d \in {D1, D2}, he \in {"", "true"},
     own \in {NoFile, fileNameOf(N12, D1, Acme, codicePVOf(<<"StoreX">>), "") :> TxtBody}}
PairInputs == {inv \in GenInputs : inv.numero = N12}

InitPair ==
  /\ rows = <<>>
  /\ movs = <<>>
  /\ files \in PairDirs
  /\ now = 0
  /\ sent = 0
  /\ req = NoReq
  /\ resp = Idle
  /\ ops = 0
  /\ lastGen = NoGen
  /\ reqs = NoReqs
  /\ lastCall = NoCall

\* one call of generateTxtFile for invoice 12; input keeps the directory as
\* it was
GeneratePairCall ==
  /\ lastCall.fn = "none"
  /\ \E invoiceData \in PairInputs :
       LET g == generateTxtFile(files, invoiceData, FALSE, now, NoFault)
       IN /\ files' = g.files
          /\ lastCall' = [fn |-> "generateTxtFile",
                          input |-> [invoiceData |-> invoiceData, dir |-> files],
                          output |-> g.result, threw |-> g.threw]
  /\ UNCHANGED <<rows, movs, now, sent, req, resp, ops, lastGen, reqs>>

NextPair == GeneratePairCall

SpecPair == InitPair /\ [][NextPair]_vars

\* ---------------------------- two generateTxtFile calls in flight at once
\* generateTxtFile split at its awaits: readdir, the backup (readFile and
\* writeFile) and the unlink of each old file, the writeFile of the new one.
\* Both calls are for invoice 34 and compute different file names.
txtFileNameOf(invoiceData) ==
  fileNameOf(invoiceData.numero, invoiceData.data_consegna.txt, invoiceData.fornitore,
             codicePVOf(invoiceData.punto_vendita),
             hasErrorsOf(invoiceData.errori_consegna, invoiceData.note,
                         invoiceData.item_noconv))
Snapshot34(d, n, e) ==
  [id |-> <<"i2">>, numero |-> N34, fornitore |-> Acme, punto_vendita |-> <<"StoreY">>,
   txt |-> TxtBody, data_consegna |-> T(d), note |-> n, item_noconv |-> EmptyStr,
   errori_consegna |-> e]
RaceSnapshots ==
  {Snapshot34(D1, EmptyStr, EmptyStr), Snapshot34(D2, EmptyStr, EmptyStr),
   Snapshot34(D1, T(<<"x">>), EmptyStr),
   Snapshot34(D2, EmptyStr, JSONstringify([righe_modificate |-> 1]))}
GenReq(invoiceData) == [pc |-> "scan", invoiceData |-> invoiceData, existing |-> <<>>]
Generations == {1, 2}

InitGenRace ==
  /\ rows = <<>>
  /\ movs = <<>>
  /\ files \in {NoFile, Row2File :> TxtBody, Row2FileErrori :> TxtBody}
  /\ now \in 0..MaxTime
  /\ sent = 0
  /\ req = NoReq
  /\ resp = Idle
  /\ ops = 0
  /\ lastGen = NoGen
  /\ \E a \in RaceSnapshots, b \in RaceSnapshots :
       /\ txtFileNameOf(a) # txtFileNameOf(b)
       /\ reqs = <<GenReq(a), GenReq(b)>>
  /\ lastCall = NoCall

\* await fs.readdir and the filter
GenScan(g) ==
  /\ reqs[g].pc = "scan"
  /\ LET existingFiles ==
           readdirOrder({f \in DOMAIN files :
              isExistingFileFor(f, cleanForFilename(reqs[g].invoiceData.numero))})
     IN reqs' = [reqs EXCEPT ![g].existing = existingFiles,
                             ![g].pc = IF existingFiles = <<>> THEN "write" ELSE "backup"]
  /\ UNCHANGED <<rows, movs, files, now, sent, req, resp, ops, lastGen, lastCall>>

\* await fs.readFile(oldFilePath) and fs.writeFile(backupPath): a file that is
\* gone makes readFile reject, which ends the cleanup
GenBackup(g) ==
  /\ reqs[g].pc = "backup"
  /\ LET oldFile == Head(reqs[g].existing)
     IN IF oldFile \in DOMAIN files
        THEN /\ files' = (backupNameOf(<<"REPLACED_">>, oldFile, now) :> files[oldFile]) @@ files
             /\ reqs' = [reqs EXCEPT ![g].pc = "unlink"]
        ELSE /\ files' = files
             /\ reqs' = [reqs EXCEPT ![g].pc = "write"]
  /\ UNCHANGED <<rows, movs, now, sent, req, resp, ops, lastGen, lastCall>>

\* await fs.unlink(oldFilePath), then the next old file
GenUnlink(g) ==
  /\ reqs[g].pc = "unlink"
  /\ LET oldFile == Head(reqs[g].existing)
         rest    == Tail(reqs[g].existing)
     IN IF oldFile \in DOMAIN files
        THEN /\ files' = [f \in (DOMAIN files) \ {oldFile} |-> files[f]]
             /\ reqs' = [reqs EXCEPT ![g].existing = rest,
                                     ![g].pc = IF rest = <<>> THEN "write" ELSE "backup"]
        ELSE /\ files' = files
             /\ reqs' = [reqs EXCEPT ![g].pc = "write"]
  /\ UNCHANGED <<rows, movs, now, sent, req, resp, ops, lastGen, lastCall>>

\* await fs.writeFile(filePath, contenutoTxt)
GenWrite(g) ==
  /\ reqs[g].pc = "write"
  /\ files' = (txtFileNameOf(reqs[g].invoiceData) :> reqs[g].invoiceData.txt) @@ files
  /\ reqs' = [reqs EXCEPT ![g].pc = "done"]
  /\ UNCHANGED <<rows, movs, now, sent, req, resp, ops, lastGen, lastCall>>

NextGenRace ==
  \E g \in Generations :
    \/ GenScan(g)
    \/ GenBackup(g)
    \/ GenUnlink(g)
    \/ GenWrite(g)

SpecGenRace == InitGenRace /\ [][NextGenRace]_vars

\* ------------------------------------------------ vocabulary of the claims
isBackup(f) == Includes(f, ".backup")
isLive(f) == EndsWith(f, <<".txt">>) /\ ~isBackup(f)
LiveFiles == {f \in DOMAIN files : isLive(f)}
LiveFilesOf(numero) ==
  {f \in DOMAIN files : isExistingFileFor(f, cleanForFilename(numero))}
ReplacedBackups == {f \in DOMAIN files : isBackup(f) /\ Head(f) = "REPLACED_"}
anyChannelNonBlank(inv) ==
  ~IsBlank(inv.errori_consegna) \/ ~IsBlank(inv.note) \/ ~IsBlank(inv.item_noconv)
skipCase(inv) ==
  \/ inv.numero = <<>>
  \/ inv.data_consegna = EmptyStr
  \/ inv.fornitore = <<>>
  \/ Trim(inv.txt) = <<>>

C6_ReplaceNotAccumulate ==
  lastGen.calls >= 1 =>
    /\ Cardinality(LiveFilesOf(N12)) = 1
    /\ Cardinality(ReplacedBackups) = lastGen.calls - 1

\* C7: a call with numero, data_consegna or fornitore missing, or with a blank
\* body, returns null without raising, and creates, backs up and deletes nothing.
C7_SkipReturnsNull ==
  [][(lastGen' # lastGen /\ skipCase(lastGen'.input[1]))
       => (/\ ~lastGen'.threw
           /\ lastGen'.result = <<>>
           /\ files' = files)]_vars

\* a request was served in this step
Served == ops' = ops + 1
TrackedFields == {"stato", "data_consegna", "confermato_da", "note", "errori_consegna"}
storicoOf(row) == parseStoricoModifiche(row.storico_modifiche)
IsPrefix(a, b) == Len(a) <= Len(b) /\ SubSeq(b, 1, Len(a)) = a
\* the change records the step appended to row i
Appended(i) ==
  SubSeq(storicoOf(rows'[i]), Len(storicoOf(rows[i])) + 1, Len(storicoOf(rows'[i])))
Changed(i, f) == rows'[i][f] # rows[i][f]
isBackupOf(b, f) ==
  \E prefix \in {<<>>, <<"REPLACED_">>, <<"DELETED_">>} : b = backupNameOf(prefix, f, now)
UnknownId(id) == \A i \in 1..Len(rows) : rows[i].id # id

\* C1: for a served confirm, update or reportError, and every tracked field of
\* every row, the step appends a change record naming the field exactly when
\* the row was already consegnato and the step changed the field's stored value.
C1_AuditIffChanged ==
  [][(Served /\ req'.op \in {"confirm", "update", "reportError"}) =>
       \A i \in 1..Len(rows) : \A f \in TrackedFields :
         (\E k \in 1..Len(Appended(i)) : Appended(i)[k].campo = f)
           <=> (rows[i].stato = Consegnato /\ Changed(i, f))]_vars

C3_OneRecordPerUpdate ==
  [][(Served /\ req'.op = "update" /\ resp'.status = 200) =>
       \A i \in 1..Len(rows) : \A f \in TrackedFields :
         (/\ rows[i].stato = Consegnato
          /\ \A g \in TrackedFields : Changed(i, g) <=> g = f)
         => /\ IsPrefix(storicoOf(rows[i]), storicoOf(rows'[i]))
            /\ Len(Appended(i)) = 1
            /\ Appended(i)[1].campo = f
            /\ Appended(i)[1].valore_precedente = OrEmpty(rows[i][f])
            /\ Appended(i)[1].valore_nuovo = rows'[i][f]
            /\ Appended(i)[1].modificato_da = req'.user]_vars

\* C3 witness: two updates, each changing one field, have left their two
\* records in call order in the history of a consegnato row
C3_Witness ==
  /\ ops = 2
  /\ req.op = "update"
  /\ resp.status = 200
  /\ \E i \in 1..Len(rows) :
       LET h == storicoOf(rows[i])
       IN /\ Len(h) = 2
          /\ h[1].campo = "data_consegna"
          /\ h[2].campo = "note"
          /\ h[2].valore_nuovo = rows[i].note
          /\ h[2].modificato_da = req.user

C8_BackupBeforeMutate ==
  [][\A f \in DOMAIN files :
       (isLive(f) /\ (f \notin DOMAIN files' \/ files'[f] # files[f]))
       => \E b \in DOMAIN files' : isBackupOf(b, f) /\ files'[b] = files[f]]_vars

\* C9: a served confirm, update or reportError that passes validation and whose
\* id matches no row replies 404 and leaves the sheet and the directory as
\* they were.
C9_UnknownIdNotFound ==
  [][(Served /\ req'.op \in {"confirm", "update", "reportError"}
        /\ UnknownId(req'.id) /\ resp'.status # 400)
       => (resp'.status = 404 /\ rows' = rows /\ files' = files)]_vars

\* C10: a served request that is not well-formed (a confirm or an update with a
\* missing, invalid or future date, an update with an invalid e-mail or no
\* field, a report with an invalid date or with no modified line and a blank
\* note, a batch with an invalid movement) is answered with an error and leaves
\* the invoice rows, the movement rows, the directory and the webhook untouched.
C10_RejectedLeavesNoTrace ==
  [][(Served /\ ~req'.wellFormed)
       => (resp'.status >= 400 /\ UNCHANGED <<rows, movs, files, sent>>)]_vars

\* C10 witness: a batch with one invalid movement among valid ones was rejected
\* after an earlier request had been served, and no movement row exists
C10_Witness ==
  /\ ops = 2
  /\ req.op = "movimentazioni"
  /\ ~req.wellFormed
  /\ resp.status = 400
  /\ movs = <<>>
  /\ Len(rows) = 2

\* the artifact of row after a report: its number and delivery date, the
\* _ERRORI suffix, the body of the row
isErrorArtifactOf(f, dir, row) ==
  /\ f \in DOMAIN dir
  /\ isLive(f)
  /\ StartsWith(f, cleanForFilename(row.numero) \o <<"_">> \o row.data_consegna.txt)
  /\ EndsWith(f, <<"_ERRORI", ".txt">>)
  /\ dir[f] = row.txt

\* C11: a served reportError that got as far as the notification dispatch (the
\* row save succeeded) replies 200 whether the dispatch was accepted, answered
\* with a non-OK status or threw; the row is saved as consegnato with the
\* report, and after a failed dispatch the artifact of the row has still been
\* regenerated.
C11_DispatchNeverFailsRequest ==
  [][(Served /\ req'.op = "reportError" /\ resp'.dispatch # "none") =>
       /\ resp'.status = 200
       /\ sent' = (IF resp'.dispatch = "ok" THEN sent + 1 ELSE sent)
       /\ \E i \in 1..Len(rows) :
            /\ rows[i].id = req'.id
            /\ rows'[i].stato = Consegnato
            /\ rows'[i].confermato_da = T(req'.user)
            /\ rows'[i].errori_consegna.js # <<>>
            /\ resp'.dispatch \in {"notOk", "threw"} =>
                 \E f \in DOMAIN files' : isErrorArtifactOf(f, files', rows'[i])]_vars

\* C11 witness: the dispatch threw, the reply is 200, the row that was pending
\* is consegnato and its artifact with the _ERRORI suffix is on disk
C11_Witness ==
  /\ req.op = "reportError"
  /\ req.id = <<"i1">>
  /\ resp.dispatch = "threw"
  /\ resp.status = 200
  /\ rows[1].stato = Consegnato
  /\ \E f \in DOMAIN files : isErrorArtifactOf(f, files, rows[1])

\* C12: after a served reportError that replied 200, the row of the request is
\* consegnato, its data_consegna is the submitted date, its confermato_da is
\* the caller, and its errori_consegna is the serialization of a report that
\* holds exactly the submitted lines flagged modificato, their count, the
\* number of submitted lines, the caller and the date: nothing else, whatever
\* the cell held before.
C12_ReportReplacesReport ==
  [][(Served /\ req'.op = "reportError" /\ resp'.status = 200) =>
       \E i \in 1..Len(rows) :
         LET body == req'.body[1]
             cell == rows'[i].errori_consegna
             flagged == SelectSeq(body.modifiche_righe, LAMBDA m : m.modificato)
         IN /\ rows[i].id = req'.id
            /\ rows'[i].stato = Consegnato
            /\ rows'[i].data_consegna = T(body.data_consegna)
            /\ rows'[i].confermato_da = T(req'.user)
            /\ cell.txt = <<>> /\ Len(cell.js) = 1
            /\ DOMAIN cell.js[1] = {"timestamp", "data_consegna", "utente", "modifiche",
                                    "note_testuali", "righe_modificate", "totale_righe"}
            /\ cell.js[1].modifiche = flagged
            /\ cell.js[1].righe_modificate = Len(flagged)
            /\ cell.js[1].totale_righe = Len(body.modifiche_righe)
            /\ cell.js[1].righe_modificate <= cell.js[1].totale_righe
            /\ cell.js[1].utente = req'.user
            /\ cell.js[1].data_consegna = body.data_consegna]_vars

\* C12 witness: two reports were saved and dispatched for the first invoice,
\* the second with two lines of which one is flagged, and the cell holds the
\* second report only
C12_Witness ==
  /\ ops = 2
  /\ sent = 2
  /\ req.op = "reportError"
  /\ req.id = <<"i1">>
  /\ rows[2].errori_consegna = EmptyStr
  /\ rows[1].errori_consegna.js # <<>>
  /\ rows[1].errori_consegna.js[1].righe_modificate = 1
  /\ rows[1].errori_consegna.js[1].totale_righe = 2

InvoicesOf(sheet, numero) == {i \in 1..Len(sheet) : sheet[i].numero = numero}

LoadedRow(r) == reqs[r].snap[findRow(reqs[r].snap, reqs[r].id)]
HasField(row, updates) ==
  \A k \in 1..Len(updates) : row[updates[k].k] = updates[k].v
ChangesOf(r) ==
  {k \in 1..Len(reqs[r].updates) :
     LoadedRow(r)[reqs[r].updates[k].k] # reqs[r].updates[k].v}
\* both requests are on one consegnato invoice and loaded it before either saved
Overlapped ==
  /\ reqs[1].id = reqs[2].id
  /\ \A r \in Requests : reqs[r].pc \in {"saved", "done"}
  /\ \A r \in Requests : LoadedRow(r) = Row2(EmptyStr)

\* C14: when two updates of one consegnato invoice both loaded the row before
\* either saved, and both have saved, the stored row is the later writer's
\* loaded row with the later writer's updates and change records only: every
\* field the earlier writer changed and the later did not touch is back at its
\* loaded value, and the history holds no record of the earlier writer.
C14_LastWriteWins ==
  \A w \in Requests : \A e \in Requests :
    (Overlapped /\ reqs[w].saveNo = 2 /\ reqs[e].saveNo = 1) =>
      LET i == findRow(rows, reqs[w].id)
          h == storicoOf(rows[i])
      IN /\ HasField(rows[i], reqs[w].updates)
         /\ Len(h) = Cardinality(ChangesOf(w))
         /\ \A k \in 1..Len(h) : h[k].modificato_da = reqs[w].user
         /\ \A k \in ChangesOf(e) :
              (\A j \in 1..Len(reqs[w].updates) :
                 reqs[w].updates[j].k # reqs[e].updates[k].k)
              => rows[i][reqs[e].updates[k].k] = LoadedRow(e)[reqs[e].updates[k].k]

\* C14 witness: both requests replied 200; the first changed data_consegna,
\* the second changed note; the stored row has the loaded data_consegna and a
\* history of one record, for note
C14_Witness ==
  /\ Overlapped
  /\ \A r \in Requests : reqs[r].pc = "done" /\ reqs[r].status = 200
  /\ reqs[1].saveNo = 1 /\ reqs[2].saveNo = 2
  /\ reqs[1].updates[1] = [k |-> "data_consegna", v |-> T(D2)]
  /\ reqs[2].updates[1].k = "note"
  /\ rows[2].data_consegna = T(D1)
  /\ rows[2].note = T(<<"x">>)
  /\ Len(storicoOf(rows[2])) = 1
  /\ storicoOf(rows[2])[1].campo = "note"

\* the lines of a document and the positions of those the line parser accepts
LinesOf(testoDDT) == Split(testoDDT, "\n")
Positions(n) == [p \in 1..n |-> p]
RecognizedPositions(testoDDT) ==
  SelectSeq(Positions(Len(LinesOf(testoDDT))),
            LAMBDA p : parseRigaDDT(LinesOf(testoDDT)[p]) # <<>>)

\* C15: the k-th line returned by the document parse carries as riga_numero the
\* 1-based position, in the original text, of the k-th line the line parser
\* accepts, blank and unrecognized lines before it counted.
C15_OriginalLineNumbers ==
  lastCall.fn = "parseDDTCompleto" =>
    LET pos == RecognizedPositions(lastCall.input)
    IN /\ Len(lastCall.output) = Len(pos)
       /\ \A k \in 1..Len(pos) : lastCall.output[k].riga_numero = pos[k]

\* Grammar A: exactly four pipe-separated fields
GrammarA(line) == Len(Split(Trim(line), "|")) = 4
\* Grammar B: code_name - quantity unit; the part before the first " - " has a
\* code followed by an underscore, the part after it starts with a number
Words(s) == SelectSeq(Split(s, " "), LAMBDA w : w # <<>>)
GrammarB(line) ==
  LET l == Trim(line)
      cut == IndexOf(l, " - ")
      left == SubSeq(l, 1, cut - 1)
      right == SubSeq(l, cut + 1, Len(l))
  IN /\ cut > 0
     /\ IndexOf(left, "_") > 1
     /\ Words(Trim(right)) # <<>>
     /\ Head(Head(Words(Trim(right)))) \in Digits
ValidLine(line) == GrammarA(line) \/ GrammarB(line)

ReadInvoice == rows[2]
ReadOf(fn) == lastCall.fn = fn
\* the case of the claim: the name read lacks _ERRORI, the file is on disk,
\* the invoice has a non-blank error channel, and sheet and file are readable
RenameCase ==
  /\ lastCall.fn \in {"getTxtContent", "getTxtContentOld"}
  /\ lastCall.input.filename = Row2File
  /\ Row2File \in DOMAIN lastCall.input.dir
  /\ anyChannelNonBlank(ReadInvoice)
  /\ lastCall.input.fault.op \in {"none", "rename"}
RenamedAndServed ==
  /\ lastCall.output.status = 200
  /\ lastCall.output.filename = Row2FileErrori
  /\ Row2File \notin DOMAIN files
  /\ Row2FileErrori \in DOMAIN files
  /\ files[Row2FileErrori] = lastCall.input.dir[Row2File]
DegradedRead ==
  /\ lastCall.output.status = 200
  /\ lastCall.output.filename = Row2File
  /\ lastCall.output.hasErrors = TRUE
  /\ files = lastCall.input.dir

\* C17: a read of an artifact whose name lacks _ERRORI while the invoice has
\* a non-blank error channel renames the file to the suffixed name and serves
\* it under that name; when the rename fails, the read succeeds under the old
\* name with hasErrors = true.
C17_RenameOnRead ==
  RenameCase =>
    IF lastCall.input.fault.op = "rename" THEN DegradedRead ELSE RenamedAndServed

\* the same statement for the handler of the earlier server alone, with the
\* two channels that handler looks at
OldHandlerRenamesOnRead ==
  (RenameCase /\ ReadOf("getTxtContentOld")
     /\ (~IsBlank(ReadInvoice.note) \/ ~IsBlank(ReadInvoice.item_noconv)))
    => IF lastCall.input.fault.op = "rename" THEN DegradedRead ELSE RenamedAndServed

\* what the current handler does in the case of C17: no file is renamed
CurrentHandlerNeverRenames ==
  ReadOf("getTxtContent")
    => files = lastCall.input.dir /\ lastCall.output.filename = lastCall.input.filename


\* ---------------------------------------------------------------- C18
\* the live artifacts generateTxtFile would find for the invoice of row i
ArtifactsOfRow(i) == LiveFilesOf(rows[i].numero)
SaveFailedOnPending ==
  /\ req.op \in {"confirm", "reportError"}
  /\ req.wellFormed
  /\ resp.status = 500
  /\ \E i \in 1..Len(rows) : rows[i].id = req.id /\ rows[i].stato = Pending

IsValidList(raw) == raw # Undefined /\ raw.js # <<>> /\ raw.js[1].arr
StoredList(raw) == IF IsValidList(raw) THEN raw.js[1].items ELSE <<>>
OrBlankText(v) == IF v = Undefined THEN EmptyStr ELSE v
Carries(rec, in) ==
  /\ rec.campo = in.campo
  /\ rec.valore_precedente = OrBlankText(in.prev)
  /\ rec.valore_nuovo = OrBlankText(in.new)
  /\ rec.modificato_da = in.by

\* C19: the codec never raises; decode(raw) is the stored list when raw is a
\* valid list and the empty list otherwise; decode(append(raw, field, prev,
\* new, by)) is decode(raw) followed by exactly one record carrying field,
\* prev (or ''), new (or '') and by.
C19_CodecTotalAndAppends ==
  /\ ~lastCall.threw
  /\ lastCall.fn = "parseStoricoModifiche"
       => lastCall.output = StoredList(lastCall.input.raw)
  /\ lastCall.fn = "aggiungiModificaAlloStorico"
       => LET before == StoredList(lastCall.input.raw)
              after  == lastCall.output.readBack
          IN /\ Len(after) = Len(before) + 1
             /\ SubSeq(after, 1, Len(before)) = before
             /\ Carries(after[Len(after)], lastCall.input)

\* an append to a stored JSON text that is not a list, with a missing
\* previous value, read back as a one-record history
C19_Witness ==
  /\ lastCall.fn = "aggiungiModificaAlloStorico"
  /\ lastCall.input.raw = JSONstringify(JsonObject)
  /\ lastCall.input.prev = Undefined
  /\ Len(lastCall.output.readBack) = 1
  /\ lastCall.output.readBack[1].valore_precedente = EmptyStr


\* ---------------------------------------------------------------- C20
\* the confirm just answered with success, its body, and the row it names
ConfirmedNow == req'.op = "confirm" /\ resp'.status = 200 /\ ops' = ops + 1
IsAdmin(email) == \E u \in users : u.email = email /\ u.role = "admin"
NoteSupplied(b) ==
  IF Trim(b.note_errori) # <<>> THEN <<b.note_errori>>
  ELSE IF Trim(b.note) # <<>> THEN <<b.note>> ELSE <<>>
ConfirmerOf(requester, b) ==
  IF IsAdmin(requester) /\ b.confermato_da_email \in GoodEmails
  THEN b.confermato_da_email ELSE requester
FrameFields == {"id", "numero", "fornitore", "punto_vendita", "txt", "item_noconv",
                "errori_consegna"}
ConfirmEffect(before, after, requester, b) ==
  /\ after.stato = Consegnato
  /\ after.data_consegna = T(b.data_consegna)
  /\ after.confermato_da = T(ConfirmerOf(requester, b))
  /\ IF NoteSupplied(b) = <<>> THEN after.note = before.note
     ELSE after.note = T(Trim(NoteSupplied(b)[1]))
  /\ \A f \in FrameFields : after[f] = before[f]

\* C20: a successful confirm sets stato = 'consegnato', data_consegna = the
\* submitted date and confermato_da, and note only when a non-blank note is
\* supplied; errori_consegna, item_noconv, txt and the identity fields keep
\* their values, and so does every other row; confermato_da is the
\* requester's email unless an admin supplied a valid email.
C20_ConfirmFrame ==
  [][ConfirmedNow =>
       LET i == findRow(rows, req'.id)
       IN /\ i # 0
          /\ Len(rows') = Len(rows)
          /\ \A j \in 1..Len(rows) : j # i => rows'[j] = rows[j]
          /\ ConfirmEffect(rows[i], rows'[i], req'.user, req'.body[1])]_vars

\* confirms that tell the cases apart: an admin on behalf of the operator, an
\* operator naming the admin, and a confirm with a note
C20_Witness ==
  /\ req.op = "confirm" /\ resp.status = 200
  /\ req.user = opx.email
  /\ req.body[1].confermato_da_email = admin.email
  /\ rows[findRow(rows, req.id)].confermato_da = T(opx.email)
  /\ rows[findRow(rows, req.id)].stato = Consegnato


\* ---------------------------------------------------------------- C21
\* the row a call names, before and after it
Called(fn) == lastCall.fn = fn
RowBefore == lastCall.input.rows[findRow(lastCall.input.rows, lastCall.input.id)]
RowAfter == rows[findRow(rows, lastCall.input.id)]
SaveSucceeded == lastCall.input.fault.op # "save"
SetsDelivered(updates) == HasKey(updates, "stato") /\ ValOf(updates, "stato") = Consegnato
RecordsAppended ==
  Len(parseStoricoModifiche(RowAfter.storico_modifiche))
    > Len(parseStoricoModifiche(RowBefore.storico_modifiche))
NoFileOperation == files = lastCall.input.files
GenerationIff ==
  lastCall.output.generated
    <=> /\ SaveSucceeded
        /\ \/ SetsDelivered(lastCall.input.updates)
           \/ RowBefore.stato = Consegnato /\ RecordsAppended
QuietUpdate ==
  \/ RowBefore.stato = Consegnato /\ RowAfter = RowBefore
  \/ RowBefore.stato = Pending /\ ~HasKey(lastCall.input.updates, "stato")

\* C21: update calls artifact generation iff the row save succeeded and the
\* updates set stato to 'consegnato' or the row was 'consegnato' and a change
\* record was appended; an update that changes nothing on a delivered invoice,
\* or one on a pending invoice that does not set stato, does no file operation.
C21_GenerationIffAndQuiet ==
  Called("updateSheetRow") =>
    /\ GenerationIff
    /\ QuietUpdate => NoFileOperation

\* the first half of C21 alone
C21_GenerationIffOnly == Called("updateSheetRow") => GenerationIff


\* ---------------------------------------------------------------- C22
\* C22: generateTxtFile writes the new file only after every live artifact of
\* the invoice has been backed up and deleted: in no state, a failed backup,
\* read or delete of a prior artifact included, does an invoice have two live
\* artifacts.
C22_AtMostOneLiveArtifact ==
  \A i \in 1..Len(rows) : Cardinality(ArtifactsOfRow(i)) <= 1

\* the same when the scan, the backups and the deletes meet no error
C22_AtMostOneWithoutCleanupError ==
  (lastCall.fn # "none" /\ lastCall.input.fault.op \notin {"readdir", "backup", "unlink"})
    => C22_AtMostOneLiveArtifact


\* ---------------------------------------------------------------- C23
\* the sheet the call leaves when nothing fails
RowsWithoutFault ==
  IF Called("confirm")
  THEN confirm(lastCall.input.rows, lastCall.input.files, opx, lastCall.input.id,
               lastCall.input.body[1], now, NoFault).rows
  ELSE updateSheetRow(lastCall.input.rows, lastCall.input.files, lastCall.input.id,
                      lastCall.input.updates, lastCall.input.user, now, NoFault).rows
GenerationFailed ==
  \/ lastCall.input.fault.op \in {"readdir", "backup", "unlink", "write"}
  \/ RowBefore.fornitore = <<>>

\* C23: update and confirm succeed exactly when the row save succeeded; a
\* failure inside artifact generation (missing field, scan, backup, delete or
\* write error) is not surfaced and leaves the saved row as saved.
C23_SuccessIffSaved ==
  (Called("updateSheetRow") \/ Called("confirm")) =>
    /\ lastCall.output.success <=> SaveSucceeded
    /\ SaveSucceeded => rows = RowsWithoutFault

\* a confirm of a pending invoice whose artifact could not be written: it
\* succeeded, the row is delivered, the directory is as it was
C23_Witness ==
  /\ Called("confirm")
  /\ GenerationFailed
  /\ lastCall.input.fault.op = "write"
  /\ lastCall.output.success
  /\ RowBefore.stato = Pending /\ RowAfter.stato = Consegnato
  /\ files = lastCall.input.files


\* ---------------------------------------------------------------- C24
NothingAfterSave ==
  /\ ~lastCall.output.generated
  /\ lastCall.output.dispatch = "none"
  /\ files = lastCall.input.files
  /\ sent = lastCall.input.sent

\* C24: when the row save fails in update, confirm or reportError the request
\* reports failure and no later step runs: no artifact is scanned, backed up,
\* deleted or written and no notification is dispatched; generation and
\* notification happen only after a successful row save.
C24_SaveFailureAborts ==
  lastCall.fn \in {"updateSheetRow", "confirm", "reportError"} =>
    /\ ~SaveSucceeded => (~lastCall.output.success /\ rows = lastCall.input.rows
                           /\ NothingAfterSave)
    /\ ~NothingAfterSave => SaveSucceeded

\* a report on the delivered invoice whose row save failed: failure, the old
\* artifact untouched, nothing sent
C24_Witness ==
  /\ Called("reportError")
  /\ ~SaveSucceeded
  /\ ~lastCall.output.success
  /\ RowBefore.stato = Consegnato
  /\ files = lastCall.input.files /\ files # NoFile
  /\ sent = 0


\* ---------------------------------------------------------------- C25
\* the one invoice of SpecLife and its live artifacts
LifeArtifacts == ArtifactsOfRow(1)
OneArtifactNamedByErrors ==
  rows[1].stato = Consegnato =>
    /\ Cardinality(LifeArtifacts) = 1
    /\ \A f \in LifeArtifacts : Includes(f, "_ERRORI") <=> anyChannelNonBlank(rows[1])
\* a step that touched the directory left every artifact that was live a
\* REPLACED_ backup with its content, and no backup ever goes away
PredecessorsKept ==
  /\ files' # files =>
       \A f \in LifeArtifacts :
         LET b == backupNameOf(<<"REPLACED_">>, f, now)
         IN b \in DOMAIN files' /\ files'[b] = files[f]
  /\ \A b \in ReplacedBackups : b \in DOMAIN files' /\ files'[b] = files[b]

\* C25: after any sequence of successful confirm, update and reportError
\* requests without I/O failure on an invoice with a body that started pending
\* without artifact, a delivered invoice has exactly one live artifact, named
\* with _ERRORI iff one of the stored note, item_noconv and errori_consegna is
\* non-blank, and every replaced artifact is kept as a REPLACED_ backup.
C25_OneArtifactPerDeliveredInvoice ==
  /\ []OneArtifactNamedByErrors
  /\ [][PredecessorsKept]_vars

\* confirmed, then reported with errors: the _ERRORI artifact is live and the
\* plain one it replaced is a backup
C25_Witness ==
  /\ rows[1].stato = Consegnato
  /\ rows[1].errori_consegna # EmptyStr
  /\ \E f \in LifeArtifacts : Includes(f, "_ERRORI")
  /\ \E b \in ReplacedBackups : ~Includes(b, "_ERRORI")


\* ---------------------------------------------------------------- C26
\* the artifacts of the other invoices in a directory
OtherArtifacts(dir) ==
  {f \in DOMAIN dir : \E b \in OtherNumbers, d \in {D1, D2}, he \in {"", "true"} :
      f = OtherArtifact(b, d, he)}
OthersUntouched(numbers) ==
  \A f \in OtherArtifacts(lastCall.input.dir) :
    (\E b \in numbers, d \in {D1, D2}, he \in {"", "true"} : f = OtherArtifact(b, d, he))
      => f \in DOMAIN files /\ files[f] = lastCall.input.dir[f]

\* C26: generateTxtFile for invoice number A backs up and deletes artifacts of
\* A only; the live artifacts of every other number B stay as they are, also
\* when the sanitized A followed by '_' is a prefix of B's artifact name
\* (A = '12', B = '12/24').
C26_OtherInvoicesUntouched ==
  lastCall.fn = "generateTxtFile" => OthersUntouched(OtherNumbers)

\* the same for the numbers whose artifact names do not start with 12_
C26_UnrelatedNamesUntouched ==
  lastCall.fn = "generateTxtFile" => OthersUntouched({N34, N120})


\* ---------------------------------------------------------------- C27
BothGenerated == \A g \in Generations : reqs[g].pc = "done"
\* C27: for every interleaving of two artifact generations for one invoice
\* that compute different file names, exactly one live artifact of that
\* invoice exists once both have finished.
C27_OneArtifactAfterRace ==
  BothGenerated => Cardinality(LiveFilesOf(N34)) = 1


\* ---------------------------------------------------------------- C28
\* the live artifacts the invoice of the call had before it
ArtifactsBefore ==
  {f \in DOMAIN lastCall.input.files :
     isExistingFileFor(f, cleanForFilename(RowBefore.numero))}
WriteFailed ==
  /\ lastCall.fn \in {"updateSheetRow", "confirm", "reportError"}
  /\ lastCall.input.fault.op = "write"

\* C28: when generateTxtFile fails while writing the new file, the artifact
\* of the invoice that was live before is still live afterwards.
C28_FailedWriteKeepsArtifact ==
  WriteFailed =>
    \A f \in ArtifactsBefore : f \in DOMAIN files /\ files[f] = lastCall.input.files[f]

\* after a failed write the content of the old artifact survives in a backup
C28_FailedWriteKeepsBackup ==
  WriteFailed =>
    \A f \in ArtifactsBefore :
      \/ f \in DOMAIN files /\ files[f] = lastCall.input.files[f]
      \/ \E b \in ReplacedBackups : files[b] = lastCall.input.files[f]

\* ------------------------- two movement batches for one DDT number in flight
\* saveMovimentazioniToSheet and generateInvoiceFromMovimentazione split at
\* their awaits: sheet.addRows(righe), sheet.getRows() with the search for the
\* numero, sheet.addRow(fatturaData). Both batches passed the validation of
\* POST /api/movimentazioni and carry the same DDT number.
BatchMov(p, q, d, by) ==
  [prodotto |-> p, quantita |-> q, destinazione |-> d, txt_content |-> TxtBody,
   creato_da |-> by, origine |-> <<"StoreX">>]
Batches ==
  {<<BatchMov(<<"P">>, 2, <<"StoreY">>, opx.email)>>,
   <<BatchMov(<<"Q">>, 1, <<"StoreY">>, admin.email)>>,
   <<BatchMov(<<"P">>, 2, <<"StoreY">>, opx.email),
     BatchMov(<<"Q">>, 1, <<"StoreY">>, opx.email)>>}
BatchNumbers == {sanitizeDDT(DDT1), N34}
BatchReq(movimenti, ddtNumber) ==
  [pc |-> "addRows", movimenti |-> movimenti, ddtNumber |-> ddtNumber, snap |-> <<>>,
   alreadyExists |-> FALSE]
Submissions == {1, 2}

InitMovRace ==
  /\ rows \in {<<>>, <<Row1>>, <<Row1, Row2(EmptyStr)>>}
  /\ movs = <<>>
  /\ files = NoFile
  /\ now = 0
  /\ sent = 0
  /\ req = NoReq
  /\ resp = Idle
  /\ ops = 0
  /\ lastGen = NoGen
  /\ lastCall = NoCall
  /\ \E a \in Batches, b \in Batches, n \in BatchNumbers :
       reqs = <<BatchReq(a, n), BatchReq(b, n)>>

\* await sheet.addRows(righe)
MovAddRows(b) ==
  /\ reqs[b].pc = "addRows"
  /\ movs' = movs \o righeOf(reqs[b].movimenti, <<"StoreX">>, reqs[b].ddtNumber)
  /\ reqs' = [reqs EXCEPT ![b].pc = "getRows"]
  /\ UNCHANGED <<rows, files, now, sent, req, resp, ops, lastGen, lastCall>>

\* await sheet.getRows() and rows.find(row => row.get('numero') === ddt_number)
MovGetRows(b) ==
  /\ reqs[b].pc = "getRows"
  /\ LET existingInvoice == \E i \in 1..Len(rows) : rows[i].numero = reqs[b].ddtNumber
     IN reqs' = [reqs EXCEPT ![b].snap = rows,
                             ![b].alreadyExists = existingInvoice,
                             ![b].pc = IF existingInvoice THEN "done" ELSE "addRow"]
  /\ UNCHANGED <<rows, movs, files, now, sent, req, resp, ops, lastGen, lastCall>>

\* await sheet.addRow(fatturaData): the row is appended to the sheet as it is
\* now, whatever the batch loaded before
MovAddRow(b) ==
  /\ reqs[b].pc = "addRow"
  /\ rows' = Append(rows, fatturaDataOf(ddtDataOf(reqs[b].movimenti, <<"StoreX">>,
                                                  reqs[b].ddtNumber), now))
  /\ reqs' = [reqs EXCEPT ![b].pc = "done"]
  /\ UNCHANGED <<movs, files, now, sent, req, resp, ops, lastGen, lastCall>>

NextMovRace ==
  \/ Tick
  \/ \E b \in Submissions :
       \/ MovAddRows(b)
       \/ MovGetRows(b)
       \/ MovAddRow(b)

SpecMovRace == InitMovRace /\ [][NextMovRace]_vars

\* ---- C29
InvoicesOfDDT(n) == {i \in 1..Len(rows) : rows[i].numero = n}
BothSubmitted == \A b \in Submissions : reqs[b].pc = "done"
SharedNumber == reqs[1].ddtNumber
\* the rows of the numero were all added by the batches (their ids start with
\* ddt_): the sheet had no invoice of that numero when the batches started
StartedWithoutInvoice ==
  \A i \in InvoicesOfDDT(SharedNumber) : rows[i].id[1] = "ddt_"

\* C29: when two movement batches that share one DDT number, submitted while
\* no invoice has that numero, have both completed, at most one invoice row
\* has that numero
C29_OneInvoicePerDDT ==
  (BothSubmitted /\ StartedWithoutInvoice)
    => Cardinality(InvoicesOfDDT(SharedNumber)) <= 1

\* when the two batches do not overlap (the second loads the sheet after the
\* first added its invoice) one invoice row has the numero
C29_OneInvoiceWhenSequential ==
  (BothSubmitted /\ StartedWithoutInvoice
     /\ (reqs[1].alreadyExists \/ reqs[2].alreadyExists))
    => Cardinality(InvoicesOfDDT(SharedNumber)) <= 1

\* ---- C30
WriteOps == {"confirm", "update", "reportError"}
\* this step served a confirm, PUT or report-error request of user u
WriteRequestBy(u) ==
  /\ ops' = ops + 1
  /\ req'.op \in WriteOps
  /\ req'.user = u.email
Operators == {u \in users : u.role # "admin"}
ListedTo(u, sheet) ==
  {i \in 1..Len(sheet) : \E k \in 1..Len(getInvoices(sheet, u)) :
                            getInvoices(sheet, u)[k] = sheet[i]}
ChangedRows == {i \in 1..Len(rows) : rows'[i] # rows[i]}

\* C30: a confirm, PUT or report-error request of an operator of store S
\* changes only rows whose punto_vendita is S, the rows the operator is
\* shown by GET /api/invoices
C30_StoreIsolationOnWrites ==
  [][\A u \in Operators :
       WriteRequestBy(u) =>
         \A i \in ChangedRows :
           /\ rows[i].punto_vendita = u.puntoVendita
           /\ i \in ListedTo(u, rows)]_vars

\* no write request changes the store of a row or the number of rows
C30_StoreOfRowKept ==
  [][(ops' = ops + 1 /\ req'.op \in WriteOps) =>
       /\ Len(rows') = Len(rows)
       /\ \A i \in 1..Len(rows) : rows'[i].punto_vendita = rows[i].punto_vendita]_vars

====
